---- MODULE Spec2Model ----
(***************************************************************************)
(* Session and protocol layer of the La Marzocco cloud client              *)
(* (src/src/clients/cloud.ts, the STOMP codec of src/unnamed/part_002).    *)
(*                                                                         *)
(* The client runs on one JavaScript event loop: every action below is one *)
(* run-to-completion step (a call up to its first await that really        *)
(* suspends, a timer callback, an event handler, the continuation of a     *)
(* settled promise).  Time is in whole seconds, as Math.floor(Date.now() / *)
(* 1000) reads it.                                                         *)
(***************************************************************************)
EXTENDS Integers, Sequences, FiniteSets, TLC

\* ------------------------------------------------------------------ bounds
NumCallers == 3        \* concurrent REST callers of asyncGetAccessToken
MaxCalls   == 4        \* calls of restApiCall started in one behaviour
MaxTime    == 7300     \* the clock stops advancing here (two token lifetimes)
NumCmds    == 2        \* executeCommand calls in one behaviour
MaxAttempts == 2       \* WebSocket objects one websocketConnect loop creates
MaxNotified == 1                 \* callback invocations that the history counts
MaxBody    == 3        \* characters in the body of a frame to encode
MaxHeaders == 2        \* entries in the header map of a frame to encode

\* --------------------------------------------------------- program constants
TOKEN_EXPIRATION      == 3600
TOKEN_TIME_TO_REFRESH == 600
PENDING_COMMAND_TIMEOUT == 10000   \* milliseconds
RECONNECT_DELAY         == 5000    \* milliseconds

WS      == 0                                   \* the websocketConnect loop
Callers == 1..NumCallers                       \* direct callers of asyncGetAccessToken
Cmds    == (NumCallers + 1)..(NumCallers + NumCmds)   \* executeCommand calls
Procs   == {WS} \cup Callers \cup Cmds

NoToken == [accessToken |-> 0, refreshToken |-> 0, expiresAt |-> 0]
TokIds  == 0..MaxCalls

VARIABLES
  now,              \* Math.floor(Date.now() / 1000)
  accessToken,      \* this.accessToken (NoToken: null)
  accessTokenLock,  \* this.accessTokenLock
  pc,               \* where each caller is
  tokenReqs,        \* sign-in / refresh requests in flight
  served,           \* tokens the server has issued so far
  outcome,          \* how the last call of a direct caller settled
  calls,            \* calls started so far
  born,             \* per call: the token held, and its class, when it started
  signInsBy,        \* history: sign-in requests per (token, class at call start)
  refreshesBy,      \* history: refresh requests per (token, class at call start)
  resultsBy,        \* history: tokens returned per (token, class at call start)
  failedTok,        \* history: tokens during whose tenure a token request failed
  autoReconnect,    \* websocketConnect's parameter
  sock,             \* the WebSocket object of the current loop iteration (0: none yet)
  readyState,       \* ws.readyState of every WebSocket object created
  handlers,         \* listeners registered on the current WebSocket object
  websocket,        \* this.websocket: its ws and the subscription id of its close action
  bearer,           \* the token in connectMsg
  sent,             \* frames sent, in order
  subs,             \* subscription ids generated so far
  backoffAt,        \* when the reconnect timer fires (-1: not set)
  fatal,            \* an error nobody handles, if any
  endedAt,          \* history: when a failed attempt ended, until the next starts (-1: none)
  waited,           \* history: time between that end and the attempt that followed
  issued,           \* command ids the server has assigned so far
  ackId,            \* per command: the id in the POST response (0: none yet)
  pendingCommands,  \* this.pendingCommands: id -> the call that registered it
  timer,            \* per command: commandTimeout
  timerAt,          \* per command: when commandTimeout fires
  ret,              \* per command: how executeCommand's promise settled
  resolveCalls,     \* history: calls of the promise's resolve
  removals,         \* history: deletions of the command's entry that removed it
  upAtPost,         \* history: whether a session was connected when the POST returned
  confirmation,     \* history: confirmed while pending (Success or other), or "late": after the timeout
  stompStage,       \* codec: "off", or how far the frame has gone: input, encoded, decoded
  stompIn,          \* codec: the arguments of encodeStompWsMessage
  stompMsg,         \* codec: the string encodeStompWsMessage returned
  stompOut,         \* codec: what decodeStompWsMessage returned for it
  redundant,        \* history: the transports (0: none) a disconnect() call found not open
  droppedWith,      \* history: a frame was dropped in the steady state ("pending": with commands pending)
  failedWith,       \* history, per caller: the response that made its token request or POST fail
  disconnectCalls,  \* history, per WebSocket: how often its close called disconnectCallback
  authStage,        \* authentication utilities: "idle", "input", "proved", "again", "written", "read"
  authIn,           \* their input: a base string and the caller's secret buffer, or a key
  authText,         \* the JSON text installationKeyToJSON returned
  authOut,          \* what the first call returned
  authAgain,        \* what a second call with the same arguments returned
  respondedAt,      \* history: when the last successful sign-in or refresh response came, -1 before
  earlySuccess,     \* history: the commands whose Success confirmation came before they were
                    \* registered and that nothing but their timer has settled since
  connectedSeen,    \* history, per WebSocket: the CONNECTED frames received on it, counted up to 2
  ignoredOn,        \* history: the WebSockets whose handshake received a frame that is not CONNECTED
  polled,           \* history: the direct callers whose last call found the lock taken
  notified          \* history: the payloads handed to the update callback

\* No request of the caller has failed.
NoFailure == [stage |-> "none", resp |-> "none"]

tokenVars == <<now, accessToken, accessTokenLock, pc, tokenReqs, served, outcome>>
histVars  == <<calls, born, signInsBy, refreshesBy, resultsBy, failedTok>>
wsVars    == <<autoReconnect, sock, readyState, handlers, websocket, bearer, sent,
               subs, backoffAt, fatal, endedAt, waited>>
cmdVars   == <<issued, ackId, pendingCommands, timer, timerAt, ret, resolveCalls,
               removals, upAtPost, confirmation>>
sessVars  == <<wsVars, cmdVars>>
stompVars == <<stompStage, stompIn, stompMsg, stompOut>>
\* The authentication utilities.
authVars  == <<authStage, authIn, authText, authOut, authAgain>>
\* The history variables of the callbacks, and what no step of the client
\* touches.
frameVars == <<connectedSeen, ignoredOn, notified>>
ghostVars == <<disconnectCalls, authVars, respondedAt, earlySuccess, frameVars, polled>>
\* What the client's steps, but for a few, leave alone.

restVars  == <<stompVars, redundant, droppedWith, failedWith, ghostVars>>
vars      == <<tokenVars, histVars, wsVars, cmdVars, restVars>>

\* What Enter and Acquire decide.
lockVars  == <<now, accessToken, accessTokenLock, tokenReqs, served,
               signInsBy, refreshesBy, resultsBy, failedTok>>

Classes == {"none", "expired", "window", "fresh"}

\* The process runs: no unhandled error has terminated it.
Alive == fatal = "none"

\* ------------------------------------------------------------ token policy
\* A test that also signs in at the very second the token expires.
NeedsSignInInclusive(tok, t) == tok = NoToken \/ tok.expiresAt <= t

\* cloud.ts:152  !this.accessToken || this.accessToken.expiresAt < now
NeedsSignIn(tok, t) == tok = NoToken \/ tok.expiresAt < t

NeedsRefreshWrongWindow(tok, t) ==
  ~NeedsSignIn(tok, t) /\ tok.expiresAt < t + TOKEN_EXPIRATION + 1

\* cloud.ts:154  this.accessToken.expiresAt < now + TOKEN_TIME_TO_REFRESH
NeedsRefresh(tok, t) ==
  ~NeedsSignIn(tok, t) /\ tok.expiresAt < t + TOKEN_TIME_TO_REFRESH

createAccessTokenNoWindow(a, r, t) ==
  [accessToken |-> a, refreshToken |-> r, expiresAt |-> t]

\* authentication.ts:234  createAccessToken
createAccessToken(a, r, t) ==
  [accessToken |-> a, refreshToken |-> r, expiresAt |-> t + TOKEN_EXPIRATION]

LockNeverTaken == TRUE

\* cloud.ts:143  the while condition of the lock
LockFree == ~accessTokenLock

ClassOf(tok, t) ==
  IF tok = NoToken THEN "none"
  ELSE IF NeedsSignIn(tok, t) THEN "expired"
  ELSE IF NeedsRefresh(tok, t) THEN "window"
  ELSE "fresh"

Bump(f, k, c) == [f EXCEPT ![k][c] = @ + 1]

\* ------------------------------------------------------- asyncGetAccessToken
\* cloud.ts:152-156: what a caller that holds the lock does next.
Decision ==
  IF NeedsSignIn(accessToken, now) THEN "signin"
  ELSE IF NeedsRefresh(accessToken, now) THEN "refresh"
  ELSE "reuse"

\* A caller that keeps the decision it would have taken when it called.
DecisionAtCall(b) ==
  IF b.cls \in {"none", "expired"} THEN "signin"
  ELSE IF b.cls = "window" THEN "refresh"
  ELSE "reuse"

\* cloud.ts:149-156: the decision of a call that started as b is taken
\* once it holds the lock, against the token and the clock of that moment.
DecisionFor(b) == Decision

\* cloud.ts:147-161, the token manager's side of taking the lock: the policy
\* is evaluated against now; a sign-in or refresh request goes out with the
\* lock held, a held token that needs nothing is returned and the lock
\* released in the same step.  b is the record of the call's start.
Acquire(p, b) ==
  /\ LockFree
  /\ CASE DecisionFor(b) = "signin" ->
            /\ accessTokenLock' = TRUE
            /\ tokenReqs' = tokenReqs \cup
                 {[by |-> p, kind |-> "signin", refreshToken |-> 0,
                   held |-> accessToken.accessToken]}
            /\ signInsBy' = Bump(signInsBy, b.tok, b.cls)
            /\ UNCHANGED <<refreshesBy, resultsBy>>
       [] DecisionFor(b) = "refresh" ->
            /\ accessTokenLock' = TRUE
            /\ tokenReqs' = tokenReqs \cup
                 {[by |-> p, kind |-> "refresh",
                   refreshToken |-> accessToken.refreshToken,
                   held |-> accessToken.accessToken]}
            /\ refreshesBy' = Bump(refreshesBy, b.tok, b.cls)
            /\ UNCHANGED <<signInsBy, resultsBy>>
       [] DecisionFor(b) = "reuse" ->
            /\ accessTokenLock' = FALSE
            /\ resultsBy' = [resultsBy EXCEPT ![b.tok][b.cls] =
                               @ \cup {accessToken.accessToken}]
            /\ UNCHANGED <<tokenReqs, signInsBy, refreshesBy>>
  /\ UNCHANGED <<now, accessToken, served, failedTok>>

\* The record of a call that starts now: the token held and its class.
BornNow == [tok |-> accessToken.accessToken, cls |-> ClassOf(accessToken, now)]

Unborn == [tok |-> 0, cls |-> "unborn"]

\* cloud.ts:141-147: asyncGetAccessToken is called; the lock is read at once,
\* and a caller that finds it taken starts polling.
Enter(p) ==
  IF LockFree THEN Acquire(p, BornNow) ELSE UNCHANGED lockVars

\* Where a caller stands after Enter or after a poll: waiting for the lock,
\* waiting for its request, or holding the token ("got").
Stands == IF ~LockFree THEN "poll"
          ELSE IF Decision = "reuse" THEN "got" ELSE Decision

HandshakeHandlers == {"open", "setupMessage", "setupError"}

\* cloud.ts:477-524: setupWebsocketConnection after its await.  With the
\* token it builds connectMsg and registers the open, message and error
\* listeners; an error thrown by asyncGetAccessToken rejects the promise of
\* the async executor, which nobody awaits: the handshake promise stays
\* pending, and the runtime either reports the unhandled rejection or
\* terminates on it.
WsAfterToken(ok, val) ==
  IF ok
    THEN /\ pc' = [pc EXCEPT ![WS] = "handshake"]
         /\ handlers' = HandshakeHandlers
         /\ bearer' = val
         /\ UNCHANGED <<autoReconnect, sock, readyState, websocket, sent, subs,
                        backoffAt, fatal, endedAt, waited, cmdVars>>
    ELSE /\ pc' = [pc EXCEPT ![WS] = "handshake"]
         /\ fatal' \in {"none", "unhandledRejection"}
         /\ UNCHANGED <<autoReconnect, sock, readyState, handlers, websocket,
                        bearer, sent, subs, backoffAt, endedAt, waited, cmdVars>>

\* cloud.ts:240-253 and 602: restApiCall after its await.  With the token the
\* command POST goes out; an error of asyncGetAccessToken propagates out of
\* executeCommand.
CmdAfterToken(c, ok, val) ==
  IF ok
    THEN /\ pc' = [pc EXCEPT ![c] = "post"]
         /\ UNCHANGED sessVars
    ELSE /\ pc' = [pc EXCEPT ![c] = "done"]
         /\ ret' = [ret EXCEPT ![c] = val]
         /\ UNCHANGED <<wsVars, issued, ackId, pendingCommands, timer, timerAt,
                        resolveCalls, removals, upAtPost, confirmation>>

\* What the caller does with the token, or with the error, once
\* asyncGetAccessToken has settled.  The history keeps the start record b of
\* a direct caller's last call.
Continue(p, ok, val, b) ==
  CASE p = WS -> /\ WsAfterToken(ok, val)
                 /\ born' = [born EXCEPT ![p] = Unborn]
                 /\ UNCHANGED outcome
    [] p \in Cmds -> /\ CmdAfterToken(p, ok, val)
                     /\ born' = [born EXCEPT ![p] = Unborn]
                     /\ UNCHANGED outcome
    [] OTHER -> /\ pc' = [pc EXCEPT ![p] = "idle"]
                /\ outcome' = IF ok THEN [by |-> p, kind |-> "token"]
                                    ELSE [by |-> p, kind |-> val]
                /\ born' = [born EXCEPT ![p] = b]
                /\ UNCHANGED sessVars

\* The caller's step after Enter or a poll, in a call that started as b.
Proceed(p, b) ==
  IF Stands = "got"
    THEN Continue(p, TRUE, accessToken.accessToken, b)
    ELSE /\ pc' = [pc EXCEPT ![p] = Stands]
         /\ born' = [born EXCEPT ![p] = b]
         /\ UNCHANGED <<outcome, sessVars>>

\* A caller calls asyncGetAccessToken.
CallStart(p) ==
  /\ Alive
  /\ failedWith' = [failedWith EXCEPT ![p] = NoFailure]
  /\ polled' = IF LockFree THEN polled \ {p} ELSE polled \cup {p}
  /\ UNCHANGED <<stompVars, redundant, droppedWith, disconnectCalls, authVars,
                 respondedAt, earlySuccess, frameVars>>
  /\ pc[p] = "idle"
  /\ calls < MaxCalls
  /\ calls' = calls + 1
  /\ Enter(p)
  /\ Proceed(p, BornNow)

\* cloud.ts:143-145: a poll timer fires and finds the lock free.
Poll(p) ==
  /\ Alive
  /\ UNCHANGED restVars
  /\ pc[p] = "poll"
  /\ Acquire(p, born[p])
  /\ Proceed(p, born[p])
  /\ UNCHANGED calls

\* A lock that is left set when the call ends.
HeldForever(lock) == TRUE

\* A lock that stays as it is when the call ends.
NotReleased(lock) == lock

\* cloud.ts:159-161  finally { this.accessTokenLock = false }
Released(lock) == FALSE

\* An assignment that keeps the refresh token of the token held before.
AssignedButRefreshToken(held, new) ==
  [new EXCEPT !.refreshToken = held.refreshToken]

\* cloud.ts:153 and 155  this.accessToken = await ...: the held token is
\* replaced by the new one.
Assigned(held, new) == new

\* cloud.ts:192-207 then 153/155, 158, 160: the request succeeded; the token
\* is replaced wholesale, returned, and the lock released.
TokenSuccess(p) ==
  /\ Alive
  /\ UNCHANGED <<stompVars, redundant, droppedWith, failedWith,
                 disconnectCalls, authVars, earlySuccess, frameVars, polled>>
  /\ respondedAt' = now
  /\ pc[p] \in {"signin", "refresh"}
  /\ \E r \in tokenReqs :
       /\ r.by = p
       /\ tokenReqs' = tokenReqs \ {r}
  /\ served' = served + 1
  /\ accessToken' = Assigned(accessToken,
                              createAccessToken(served + 1, served + 1, now))
  /\ accessTokenLock' = Released(accessTokenLock)
  /\ Continue(p, TRUE, accessToken'.accessToken, born[p])
  /\ resultsBy' = [resultsBy EXCEPT ![born[p].tok][born[p].cls] =
                     @ \cup {accessToken'.accessToken}]
  /\ UNCHANGED <<now, calls, signInsBy, refreshesBy, failedTok>>

\* The responses that make a REST request fail: a 401, another status that
\* is no success, no response at all (a transport error or the timeout).
FailedResponses == {"401", "500", "network"}

\* An error mapping that takes every failure for an authentication failure.
TokenErrorAuthAlways(resp) == "AuthFail"

\* cloud.ts:209-225: the error asyncGetToken throws for a failed request.
TokenError(resp) ==
  IF resp = "401" THEN "AuthFail" ELSE "RequestNotSuccessful"

\* cloud.ts:209-226 then 160: the request failed (401: AuthFail, anything
\* else: RequestNotSuccessful); the error propagates, the lock is released
\* and the held token stays.
TokenFailure(p) ==
  /\ Alive
  /\ UNCHANGED <<stompVars, redundant, droppedWith, ghostVars>>
  /\ pc[p] \in {"signin", "refresh"}
  /\ \E r \in tokenReqs :
       /\ r.by = p
       /\ tokenReqs' = tokenReqs \ {r}
       /\ failedTok' = failedTok \cup {r.held}
  /\ accessTokenLock' = Released(accessTokenLock)
  /\ \E resp \in FailedResponses :
       /\ Continue(p, FALSE, TokenError(resp), born[p])
       /\ failedWith' = [failedWith EXCEPT ![p] =
                           [stage |-> "token", resp |-> resp]]
  /\ UNCHANGED <<now, accessToken, served, calls, signInsBy, refreshesBy,
                 resultsBy>>

\* ------------------------------------------------------------ executeCommand
CommandStatus == {"Success", "Error", "Timeout", "Pending", "InProgress"}
NoId      == 0
ForeignId == 99    \* an id no executeCommand call of this client was given

\* A getter that looks at this.ws alone, not at its readyState.
ConnectedOnceSet == websocket.ws # 0

\* A flag that counts a transport that is closing as connected.
ConnectedUntilClosed ==
  IF websocket.ws = 0 THEN FALSE ELSE readyState[websocket.ws] # "CLOSED"

\* general.ts:219-224  WebSocketDetails.connected
Connected ==
  IF websocket.ws = 0 THEN FALSE ELSE readyState[websocket.ws] = "OPEN"

\* The realtime session as section 4.5 of the specification has it: the
\* loop is in its steady state on a transport that is open.
SessionUp == pc[WS] = "active" /\ sock > 0 /\ readyState[sock] = "OPEN"

\* cloud.ts:597-606: executeCommand calls restApiCall, which first asks for
\* the access token.
CmdStart(c) ==
  /\ Alive
  /\ UNCHANGED restVars
  /\ pc[c] = "idle"
  /\ Enter(c)
  /\ Proceed(c, BornNow)
  /\ UNCHANGED calls

\* The server accepts the POST and assigns the command its id; the response
\* is on its way.
ServerAccept(c) ==
  /\ Alive
  /\ UNCHANGED restVars
  /\ pc[c] = "post"
  /\ issued' = issued + 1
  /\ ackId' = [ackId EXCEPT ![c] = 40 + issued']
  /\ pc' = [pc EXCEPT ![c] = "posted"]
  /\ UNCHANGED <<now, accessToken, accessTokenLock, tokenReqs, served, outcome,
                 histVars, wsVars, pendingCommands, timer, timerAt, ret,
                 resolveCalls, removals, upAtPost, confirmation>>

\* An error mapping that swallows the failure: the call goes on as if the
\* POST had been accepted.
RestErrorSwallowed(resp) == "true"

\* cloud.ts:260-276: the error restApiCall throws for a failed request.
RestError(resp) ==
  IF resp = "401" THEN "AuthFail" ELSE "RequestNotSuccessful"

\* cloud.ts:260-277: the POST fails (401, another status, a transport error,
\* the 10 s request timeout: the server may have accepted the command by
\* then); restApiCall throws and so does executeCommand.
PostFail(c) ==
  /\ Alive
  /\ UNCHANGED <<stompVars, redundant, droppedWith, disconnectCalls, authVars,
                 respondedAt, frameVars, polled>>
  /\ earlySuccess' = earlySuccess \ {c}
  /\ pc[c] \in {"post", "posted"}
  /\ pc' = [pc EXCEPT ![c] = "done"]
  /\ \E resp \in (IF pc[c] = "post" THEN FailedResponses ELSE {"network"}) :
       /\ ret' = [ret EXCEPT ![c] = RestError(resp)]
       /\ failedWith' = [failedWith EXCEPT ![c] =
                           [stage |-> "post", resp |-> resp]]
  /\ UNCHANGED <<now, accessToken, accessTokenLock, tokenReqs, served, outcome,
                 histVars, wsVars, issued, ackId, pendingCommands, timer,
                 timerAt, resolveCalls, removals, upAtPost, confirmation>>

\* A pending command whose timer is never started.
TimerNotStarted(t) == t

\* cloud.ts:617-621: setTimeout starts commandTimeout.
setTimeout(t) == "armed"

\* cloud.ts:608-637: the POST response arrives.  Without a connected
\* websocket executeCommand returns true; otherwise it arms commandTimeout
\* and registers the pending entry under the acknowledgement id.
PostResponse(c) ==
  /\ Alive
  /\ UNCHANGED <<stompVars, redundant, droppedWith, failedWith, disconnectCalls,
                 authVars, respondedAt, frameVars, polled>>
  /\ earlySuccess' = IF Connected THEN earlySuccess ELSE earlySuccess \ {c}
  /\ pc[c] = "posted"
  /\ upAtPost' = [upAtPost EXCEPT ![c] = IF SessionUp THEN "up" ELSE "down"]
  /\ IF ~Connected
       THEN /\ pc' = [pc EXCEPT ![c] = "done"]
            /\ ret' = [ret EXCEPT ![c] = "true"]
            /\ UNCHANGED <<pendingCommands, timer, timerAt>>
       ELSE /\ pc' = [pc EXCEPT ![c] = "pending"]
            /\ timer' = [timer EXCEPT ![c] = setTimeout(@)]
            /\ timerAt' = [timerAt EXCEPT ![c] =
                             now + PENDING_COMMAND_TIMEOUT \div 1000]
            /\ pendingCommands' =
                 [i \in DOMAIN pendingCommands \cup {ackId[c]} |->
                    IF i = ackId[c] THEN c ELSE pendingCommands[i]]
            /\ UNCHANGED ret
  /\ UNCHANGED <<now, accessToken, accessTokenLock, tokenReqs, served, outcome,
                 histVars, wsVars, issued, ackId, resolveCalls, removals,
                 confirmation>>

\* The promise of executeCommand settles once: a later resolve is ignored.
Settle(r, v) == IF r = "none" THEN v ELSE r

\* A delete that leaves the entry in the map.
KeepEntry(m, i) == m

\* A delete that removes the oldest entry, whatever its id.
WithoutOldest(m, i) ==
  IF DOMAIN m = {} THEN m
  ELSE LET o == CHOOSE j \in DOMAIN m : \A k \in DOMAIN m : j <= k
       IN [j \in DOMAIN m \ {o} |-> m[j]]

\* Map.prototype.delete
Without(m, i) == [j \in DOMAIN m \ {i} |-> m[j]]

\* cloud.ts:617-621: commandTimeout fires.
CommandTimeout(c) ==
  /\ Alive
  /\ UNCHANGED restVars
  /\ timer[c] = "armed"
  /\ now >= timerAt[c]
  /\ timer' = [timer EXCEPT ![c] = "fired"]
  /\ pendingCommands' = Without(pendingCommands, ackId[c])
  /\ removals' = [removals EXCEPT ![c] =
                    IF ackId[c] \in DOMAIN pendingCommands THEN @ + 1 ELSE @]
  /\ resolveCalls' = [resolveCalls EXCEPT ![c] = @ + 1]
  /\ ret' = [ret EXCEPT ![c] = Settle(@, "false")]
  /\ pc' = [pc EXCEPT ![c] = "done"]
  /\ UNCHANGED <<now, accessToken, accessTokenLock, tokenReqs, served, outcome,
                 histVars, wsVars, issued, ackId, timerAt, upAtPost, confirmation>>

\* A timer that clearTimeout leaves running.
KeepTimer(t) == t

\* cloud.ts:625  clearTimeout(commandTimeout)
clearTimeout(t) == IF t = "armed" THEN "cleared" ELSE t

\* A resolve that reports every confirmation as a failure.
ConfirmedAsFailure(status) == "false"

\* A resolve that takes a command still under way for a success.
ConfirmedAsUnlessError(status) ==
  IF status \in {"Error", "Timeout"} THEN "false" ELSE "true"

\* cloud.ts:624-634: the resolve stored in the pending entry.
ConfirmedAs(status) == IF status = "Success" THEN "true" ELSE "false"

\* A lookup by arrival order: the entry settles the oldest pending command,
\* whatever id it carries.
ApplyEntryInOrder(st, e) ==
  IF DOMAIN st.pend # {}
    THEN LET id == CHOOSE i \in DOMAIN st.pend : \A j \in DOMAIN st.pend : i <= j
             c  == st.pend[id]
         IN [pend    |-> Without(st.pend, id),
             timer   |-> [st.timer EXCEPT ![c] = clearTimeout(@)],
             ret     |-> [st.ret EXCEPT ![c] = Settle(@, ConfirmedAs(e.status))],
             calls   |-> [st.calls EXCEPT ![c] = @ + 1],
             removed |-> [st.removed EXCEPT ![c] = @ + 1],
             pc      |-> [st.pc EXCEPT ![c] = "done"]]
    ELSE st

\* cloud.ts:577-581: one entry of the commands list, applied to the state st
\* of the pending commands.
ApplyEntry(st, e) ==
  IF e.id \in DOMAIN st.pend
    THEN LET c == st.pend[e.id] IN
         [pend    |-> Without(st.pend, e.id),
          timer   |-> [st.timer EXCEPT ![c] = clearTimeout(@)],
          ret     |-> [st.ret EXCEPT ![c] = Settle(@, ConfirmedAs(e.status))],
          calls   |-> [st.calls EXCEPT ![c] = @ + 1],
          removed |-> [st.removed EXCEPT ![c] = @ + 1],
          pc      |-> [st.pc EXCEPT ![c] = "done"]]
    ELSE st

\* A loop that ends at the first entry that names no pending command.
RECURSIVE ProcessCommandsUntilUnmatched(_, _)
ProcessCommandsUntilUnmatched(st, entries) ==
  IF entries = <<>> \/ Head(entries).id \notin DOMAIN st.pend THEN st
  ELSE ProcessCommandsUntilUnmatched(ApplyEntry(st, Head(entries)),
                                     Tail(entries))

\* cloud.ts:576-582: the loop over config.commands.
RECURSIVE ProcessCommands(_, _)
ProcessCommands(st, entries) ==
  IF entries = <<>> THEN st
  ELSE ProcessCommands(ApplyEntry(st, Head(entries)), Tail(entries))

\* ---------------------------------------------------------- websocketConnect
Frame(ty, body, cmds) == [type |-> ty, body |-> body, commands |-> cmds]

\* The ids a confirmation can carry: those the server has assigned, and one
\* that belongs to no call of this client.
ConfIds == ({ackId[c] : c \in Cmds} \ {NoId}) \cup {ForeignId}

Entries == [id : ConfIds, status : CommandStatus]

\* The commands lists of a MESSAGE body, each command at most once: one
\* entry of any status, or two entries that each report success or an error.
CommandLists ==
  {<<>>} \cup {<<e>> : e \in Entries}
    \cup {<<p[1], p[2]>> :
            p \in {q \in Entries \X Entries :
                     /\ q[1].id # q[2].id
                     /\ q[1].status \in {"Success", "Error"}
                     /\ q[2].status \in {"Success", "Error"}}}

\* The frames a server may send during the handshake, as messageHandler
\* tells them apart: by type.
HandshakeFrames ==
  {Frame(ty, "none", <<>>) : ty \in {"CONNECTED", "ERROR", "OTHER", "MESSAGE"}}

\* MESSAGE frames with a dashboard payload.
CommandFrames == {Frame("MESSAGE", "json", l) : l \in CommandLists}

\* The other frames a server may send in the steady state: ERROR, a frame
\* of another type, and MESSAGE without a body, with a body that is no JSON
\* or with one that is the JSON value null.
OtherFrames ==
  {Frame(ty, "none", <<>>) : ty \in {"ERROR", "OTHER", "MESSAGE"}}
    \cup {Frame("MESSAGE", b, <<>>) : b \in {"garbage", "null"}}

\* The ERROR frame, as handleWebsocketMessage takes it: by its type.
ErrorFrames == {Frame("ERROR", "none", <<>>)}

\* The CONNECTED frame.
ConnectedFrames == {Frame("CONNECTED", "none", <<>>)}

\* The frames of the steady state, a repeated CONNECTED among them.
SteadyFrames == OtherFrames \cup CommandFrames \cup ConnectedFrames

\* cloud.ts:427-433 and 477: one pass of the while loop up to the first
\* await that suspends: a WebSocket object is created (it starts connecting)
\* and setupWebsocketConnection asks for the access token.  rs is
\* readyState and ended the time the previous connection ended, as the step
\* that leads here leaves them.
StartAttempt(rs, ended) ==
  IF sock < MaxAttempts
    THEN /\ sock' = sock + 1
         /\ readyState' = [rs EXCEPT ![sock + 1] = "CONNECTING"]
         /\ waited' = IF ended >= 0 THEN now - ended ELSE waited
         /\ Enter(WS)
         /\ IF Stands = "got"
              THEN /\ pc' = [pc EXCEPT ![WS] = "handshake"]
                   /\ handlers' = HandshakeHandlers
                   /\ bearer' = accessToken.accessToken
                   /\ UNCHANGED born
              ELSE /\ pc' = [pc EXCEPT ![WS] = Stands]
                   /\ handlers' = {}
                   /\ bearer' = 0
                   /\ born' = [born EXCEPT ![WS] = BornNow]
    ELSE /\ pc' = [pc EXCEPT ![WS] = "capped"]
         /\ readyState' = rs
         /\ handlers' = {}
         /\ UNCHANGED <<sock, waited, bearer, born, lockVars>>

\* cloud.ts:420-427: websocketConnect is called; with autoReconnect false
\* the loop body never runs and the call returns.
WebsocketConnect(auto) ==
  /\ Alive
  /\ UNCHANGED restVars
  /\ pc[WS] = "idle"
  /\ autoReconnect' = auto
  /\ IF auto
       THEN StartAttempt(readyState, endedAt)
       ELSE /\ pc' = [pc EXCEPT ![WS] = "returned"]
            /\ UNCHANGED <<sock, readyState, waited, handlers, bearer, born,
                           lockVars>>
  /\ UNCHANGED <<calls, outcome, websocket, sent, subs, backoffAt, fatal,
                 endedAt, cmdVars>>

\* The transport opens; cloud.ts:486-489 sends connectMsg if the open
\* listener is registered by then.
TransportOpen ==
  /\ Alive
  /\ UNCHANGED restVars
  /\ sock > 0
  /\ readyState[sock] = "CONNECTING"
  /\ readyState' = [readyState EXCEPT ![sock] = "OPEN"]
  /\ sent' = IF "open" \in handlers
               THEN Append(sent, [sock |-> sock, type |-> "CONNECT", arg |-> bearer])
               ELSE sent
  /\ UNCHANGED <<tokenVars, histVars, autoReconnect, sock, handlers, websocket,
                 bearer, subs, backoffAt, fatal, endedAt, waited, cmdVars>>

\* The transport fails: the WebSocket object starts closing and emits
\* 'error'.  Without an error listener the event is thrown as an uncaught
\* exception.  During the handshake the listener is reject (cloud.ts:524):
\* the await at 433 throws, the catch block (458-465) logs and starts the
\* reconnect timer.  After the handshake reject does nothing more and the
\* listener of 450-452 logs.
TransportError ==
  /\ Alive
  /\ UNCHANGED restVars
  /\ sock > 0
  /\ readyState[sock] \in {"CONNECTING", "OPEN"}
  /\ readyState' = [readyState EXCEPT ![sock] = "CLOSING"]
  /\ IF handlers \cap {"setupError", "error"} = {}
       THEN /\ fatal' = "uncaughtException"
            /\ UNCHANGED <<pc, backoffAt, endedAt>>
       ELSE IF pc[WS] = "handshake"
       THEN /\ pc' = [pc EXCEPT ![WS] = "backoff"]
            /\ backoffAt' = now + RECONNECT_DELAY \div 1000
            /\ endedAt' = now
            /\ UNCHANGED fatal
       ELSE UNCHANGED <<pc, backoffAt, endedAt, fatal>>
  /\ UNCHANGED <<now, accessToken, accessTokenLock, tokenReqs, served, outcome,
                 histVars, autoReconnect, sock, handlers, websocket, bearer,
                 sent, subs, waited, cmdVars>>

\* cloud.ts:464 then 427: the reconnect timer fires and the loop goes round.
BackoffFire ==
  /\ Alive
  /\ UNCHANGED restVars
  /\ pc[WS] = "backoff"
  /\ now >= backoffAt
  /\ backoffAt' = -1
  /\ endedAt' = -1
  /\ StartAttempt(readyState, endedAt)
  /\ UNCHANGED <<calls, outcome, autoReconnect, websocket, sent, subs, fatal,
                 cmdVars>>

\* How many of the listeners ls do what.
Occurrences(ls, what) == Cardinality({i \in 1..Len(ls) : ls[i] = what})

\* A steady state that registers no listener calling the callback.
CloseListenersWaitOnly == <<"resolve">>

\* cloud.ts:443-448 and 455-457: the 'close' listeners of the steady state,
\* in the order of their registration: the first calls disconnectCallback,
\* the second resolves the promise the loop waits on, whose continuation
\* (the next round of the loop) runs once every listener has returned.
CloseListeners == <<"disconnectCallback", "resolve">>

\* The current transport closes and emits 'close'.  In the steady state
\* the listeners of cloud.ts:443-448 and 455-457 run: the disconnect
\* callback, then the loop goes round at once (427).  During the handshake
\* nobody listens for 'close'.
TransportClose ==
  /\ Alive
  /\ UNCHANGED <<stompVars, redundant, droppedWith, failedWith, authVars,
                 respondedAt, earlySuccess, frameVars, polled>>
  /\ sock > 0
  /\ readyState[sock] \in {"OPEN", "CLOSING"}
  /\ IF "close" \in handlers /\ pc[WS] = "active"
       THEN /\ disconnectCalls' =
                 [disconnectCalls EXCEPT
                    ![sock] = @ + Occurrences(CloseListeners, "disconnectCallback")]
            /\ IF Occurrences(CloseListeners, "resolve") > 0
                 THEN StartAttempt([readyState EXCEPT ![sock] = "CLOSED"], now)
                 ELSE /\ readyState' = [readyState EXCEPT ![sock] = "CLOSED"]
                      /\ UNCHANGED <<sock, waited, handlers, bearer, pc, born,
                                     lockVars>>
       ELSE /\ readyState' = [readyState EXCEPT ![sock] = "CLOSED"]
            /\ UNCHANGED <<sock, waited, handlers, bearer, pc, born, lockVars,
                           disconnectCalls>>
  /\ UNCHANGED <<calls, outcome, autoReconnect, websocket, sent, subs,
                 backoffAt, fatal, endedAt, cmdVars>>

\* A frame can arrive on the current transport while it is open.
Receiving == sock > 0 /\ readyState[sock] = "OPEN"

\* A handshake that leaves its message listener registered.
ListenerKept(hs, h) == hs

\* cloud.ts:518  ws.removeListener("message", messageHandler)
removeListener(hs, h) == hs \ {h}

ConnectSent ==
  \E i \in 1..Len(sent) : sent[i].sock = sock /\ sent[i].type = "CONNECT"

\* cloud.ts:492-521: a frame arrives while messageHandler of the handshake
\* is the 'message' listener.  A CONNECTED frame (the server's answer to
\* CONNECT, never sent before it) is answered with SUBSCRIBE under a new
\* subscription id; this.websocket is replaced, the handler removed and the
\* promise resolved, and websocketConnect (435-457) registers the
\* steady-state listeners.  Any other frame is decoded and ignored.
HandshakeFrame(f) ==
  /\ Alive
  /\ UNCHANGED <<stompVars, redundant, droppedWith, failedWith, disconnectCalls,
                 authVars, respondedAt, earlySuccess, polled, notified>>
  /\ Receiving
  /\ "setupMessage" \in handlers
  /\ f.type = "CONNECTED" => ConnectSent
  /\ IF f.type = "CONNECTED"
       THEN /\ subs' = subs + 1
            /\ sent' = Append(sent, [sock |-> sock, type |-> "SUBSCRIBE",
                                     arg |-> subs'])
            /\ websocket' = [ws |-> sock, sub |-> subs']
            /\ handlers' = removeListener(handlers, "setupMessage")
                             \cup {"message", "close", "error"}
            /\ pc' = [pc EXCEPT ![WS] = "active"]
            /\ connectedSeen' = [connectedSeen EXCEPT ![sock] = @ + 1]
            /\ UNCHANGED <<now, accessToken, accessTokenLock, tokenReqs, served,
                           outcome, histVars, autoReconnect, sock, readyState,
                           bearer, backoffAt, fatal, endedAt, waited, cmdVars,
                           ignoredOn>>
       ELSE /\ ignoredOn' = ignoredOn \cup {sock}
            /\ UNCHANGED <<tokenVars, histVars, wsVars, cmdVars, connectedSeen>>

\* cloud.ts:492-521, 435-437 and 458-465: the CONNECTED frame arrives and
\* the handshake completes as in HandshakeFrame, but connectCallback, which
\* websocketConnect calls inside its try block before it registers the
\* steady-state listeners, throws: the catch block logs the error and
\* starts the reconnect timer.  Nothing has closed the WebSocket, and of its
\* listeners the open and error listeners of the handshake remain.
ConnectCallbackThrows(f) ==
  /\ Alive
  /\ UNCHANGED <<stompVars, redundant, droppedWith, failedWith, disconnectCalls,
                 authVars, respondedAt, earlySuccess, polled, notified,
                 ignoredOn>>
  /\ Receiving
  /\ "setupMessage" \in handlers
  /\ f.type = "CONNECTED"
  /\ ConnectSent
  /\ subs' = subs + 1
  /\ sent' = Append(sent, [sock |-> sock, type |-> "SUBSCRIBE", arg |-> subs'])
  /\ websocket' = [ws |-> sock, sub |-> subs']
  /\ handlers' = removeListener(handlers, "setupMessage")
  /\ connectedSeen' = [connectedSeen EXCEPT ![sock] = @ + 1]
  /\ pc' = [pc EXCEPT ![WS] = "backoff"]
  /\ backoffAt' = now + RECONNECT_DELAY \div 1000
  /\ endedAt' = now
  /\ UNCHANGED <<now, accessToken, accessTokenLock, tokenReqs, served, outcome,
                 histVars, autoReconnect, sock, readyState, bearer, fatal,
                 waited, cmdVars>>

\* cloud.ts:559-573: parseWebsocketMessage up to the loop over the
\* commands.  No body: it returns; a body that is no JSON: JSON.parse throws
\* a SyntaxError; the JSON value null: reading config.widgets throws a
\* TypeError; else the loop is reached.
ParseOutcome(body) ==
  CASE body = "none" -> "return"
    [] body = "garbage" -> "SyntaxError"
    [] body = "null" -> "TypeError"
    [] OTHER -> "commands"

\* A catch block that throws the error on.
Rethrown(error) == "thrown"

\* cloud.ts:547-549: the catch block logs the error.
Caught(error) == "dropped"

\* A receive path on which an ERROR frame is an error of the client.
ErrorFrameThrown(f) ==
  IF f.type = "ERROR" THEN "thrown"
  ELSE IF f.type = "MESSAGE"
    THEN CASE ParseOutcome(f.body) = "return" -> "dropped"
           [] ParseOutcome(f.body) = "commands" -> "commands"
           [] OTHER -> Caught(ParseOutcome(f.body))
  ELSE "dropped"

\* cloud.ts:535-549: what handleWebsocketMessage does with a frame.  The
\* type is what decodeStompWsMessage found on the first line (OTHER: any
\* other string, that of a malformed frame included).
handleWebsocketMessage(f) ==
  IF f.type = "ERROR" THEN "dropped"
  ELSE IF f.type = "MESSAGE"
    THEN CASE ParseOutcome(f.body) = "return" -> "dropped"
           [] ParseOutcome(f.body) = "commands" -> "commands"
           [] OTHER -> Caught(ParseOutcome(f.body))
  ELSE "dropped"

\* A counter of the history, kept up to MaxNotified.
Count(n) == IF n < MaxNotified THEN n + 1 ELSE n

\* An update callback that is invoked before the loop over the commands.
CallbackFirst(before, after) == before

\* cloud.ts:575-587: notificationCallback(config) is the last statement of
\* parseWebsocketMessage: the pending commands it finds are those the loop
\* over config.commands has left.
notificationCallback(before, after) == after

\* What the update callback has found so far of the pending commands that
\* the frame it was invoked for confirmed (those of entries, registered in
\* ids when the frame arrived): still registered in found (unresolved), or
\* resolved and removed.
Seen(saw, entries, ids, found) ==
  LET named == {entries[i].id : i \in 1..Len(entries)} \cap ids
  IN IF saw = "unresolved" \/ named \cap found # {} THEN "unresolved"
     ELSE IF named # {} THEN "resolved"
     ELSE IF saw = "none" THEN "nothing"
     ELSE saw

\* cloud.ts:531-588: a frame arrives in the steady state and goes through
\* handleWebsocketMessage and parseWebsocketMessage.  Only a MESSAGE frame
\* whose body parses reaches the loop over its commands; everything else is
\* logged and dropped.
SteadyFrame(f) ==
  /\ Alive
  /\ Receiving
  /\ "setupMessage" \notin handlers
  /\ "message" \in handlers
  /\ IF handleWebsocketMessage(f) = "commands"
       THEN LET st == ProcessCommands(
                        [pend |-> pendingCommands, timer |-> timer, ret |-> ret,
                         calls |-> resolveCalls, removed |-> removals, pc |-> pc],
                        f.commands)
            IN /\ pendingCommands' = st.pend
               /\ timer' = st.timer
               /\ ret' = st.ret
               /\ resolveCalls' = st.calls
               /\ removals' = st.removed
               /\ pc' = st.pc
               /\ confirmation' =
                    [c \in Cmds |->
                       LET mine == {i \in 1..Len(f.commands) :
                                      f.commands[i].id = ackId[c]}
                       IN IF mine = {} \/ pc[c] \notin {"pending", "done"}
                            THEN confirmation[c]
                          ELSE IF pc[c] = "pending"
                            THEN IF f.commands[CHOOSE i \in mine : TRUE].status
                                      = "Success"
                                   THEN "Success" ELSE "other"
                          ELSE IF timer[c] = "fired" THEN "late"
                          ELSE confirmation[c]]
               /\ notified' =
                    [frames |-> Count(notified.frames),
                     calls  |-> Count(notified.calls),
                     saw    |-> Seen(notified.saw, f.commands,
                                     DOMAIN pendingCommands,
                                     DOMAIN notificationCallback(
                                              pendingCommands, st.pend))]
               /\ earlySuccess' =
                    (earlySuccess \ {c \in Cmds : st.timer[c] = "cleared"}) \cup
                    {c \in Cmds :
                       /\ pc[c] = "posted"
                       /\ \E i \in 1..Len(f.commands) :
                            /\ f.commands[i].id = ackId[c]
                            /\ f.commands[i].status = "Success"}
               /\ UNCHANGED <<now, accessToken, accessTokenLock, tokenReqs,
                              served, outcome, histVars, wsVars, issued, ackId,
                              timerAt, upAtPost, stompVars, redundant,
                              droppedWith, failedWith, disconnectCalls, authVars,
                              respondedAt, connectedSeen, ignoredOn, polled>>
       ELSE IF handleWebsocketMessage(f) = "thrown"
       THEN /\ fatal' = "receiveError"
            /\ UNCHANGED <<tokenVars, histVars, autoReconnect, sock, readyState,
                           handlers, websocket, bearer, sent, subs, backoffAt,
                           endedAt, waited, cmdVars, restVars>>
       ELSE /\ droppedWith' = IF pendingCommands # <<>> THEN "pending"
                              ELSE IF droppedWith = "none" THEN "idle"
                              ELSE droppedWith
            /\ connectedSeen' =
                 IF f.type = "CONNECTED"
                   THEN [connectedSeen EXCEPT ![sock] = IF @ < 2 THEN @ + 1 ELSE 2]
                   ELSE connectedSeen
            /\ UNCHANGED <<tokenVars, histVars, wsVars, cmdVars, stompVars,
                           redundant, failedWith, disconnectCalls, authVars,
                           respondedAt, earlySuccess, ignoredOn, polled,
                           notified>>

\* A test that lets a transport that is already closing through.
TransportNotClosed(k) == readyState[k] # "CLOSED"

\* cloud.ts:507  ws.readyState === WebSocket.OPEN
TransportIsOpen(k) == readyState[k] = "OPEN"

\* general.ts:226-230 and cloud.ts:505-515: websocket.disconnect() runs the
\* close action of the session in this.websocket: UNSUBSCRIBE, then close
\* (which makes the transport CLOSING at once), if that transport is open.
Disconnect ==
  /\ Alive
  /\ UNCHANGED restVars
  /\ websocket.ws # 0
  /\ TransportIsOpen(websocket.ws)
  /\ sent' = Append(sent, [sock |-> websocket.ws, type |-> "UNSUBSCRIBE",
                           arg |-> websocket.sub])
  /\ readyState' = [readyState EXCEPT ![websocket.ws] = "CLOSING"]
  /\ UNCHANGED <<tokenVars, histVars, autoReconnect, sock, handlers, websocket,
                 bearer, subs, backoffAt, fatal, endedAt, waited, cmdVars>>

\* general.ts:227 and cloud.ts:507: websocket.disconnect() is called while
\* there is no close action (no session was ever established) or its
\* transport is not open: nothing is sent and nothing is closed.
DisconnectIdle ==
  /\ Alive
  /\ ~(websocket.ws # 0 /\ TransportIsOpen(websocket.ws))
  /\ redundant' = redundant \cup {websocket.ws}
  /\ UNCHANGED <<tokenVars, histVars, wsVars, cmdVars, stompVars, droppedWith,
                 failedWith, ghostVars>>

\* ------------------------------------------------------------ STOMP codec
\* Strings are sequences of characters.  A frame type is one symbol (no
\* type contains a line feed or a colon).
LF    == "\n"
NUL   == "NUL"      \* the character \x00
COLON == ":"

Undefined == <<"undefined">>     \* an omitted argument, a missing array element
Null      == <<"null">>

StompMessageType == {"CONNECT", "CONNECTED", "SUBSCRIBE", "UNSUBSCRIBE",
                     "MESSAGE", "ERROR"}

Min(a, b) == IF a <= b THEN a ELSE b

\* Array.prototype.join
RECURSIVE Join(_, _)
Join(fragments, sep) ==
  IF fragments = <<>> THEN <<>>
  ELSE IF Len(fragments) = 1 THEN fragments[1]
  ELSE fragments[1] \o sep \o Join(Tail(fragments), sep)

\* String.prototype.indexOf: the 0-based position of the first occurrence
\* of sep, -1 if there is none.
indexOf(str, sep) ==
  LET hits == {i \in 1..(Len(str) - Len(sep) + 1) :
                 SubSeq(str, i, i + Len(sep) - 1) = sep}
  IN IF hits = {} THEN -1
     ELSE (CHOOSE i \in hits : \A j \in hits : i <= j) - 1

\* String.prototype.split with a non-empty separator: the pieces between
\* successive occurrences, found left to right.
RECURSIVE Split(_, _)
Split(str, sep) ==
  LET i == indexOf(str, sep)
  IN IF i = -1 THEN <<str>>
     ELSE <<SubSeq(str, 1, i)>>
            \o Split(SubSeq(str, i + Len(sep) + 1, Len(str)), sep)

\* String.prototype.split(sep, limit): the first limit pieces; what follows
\* them is not in the result.
SplitLimit(str, sep, limit) ==
  LET all == Split(str, sep) IN SubSeq(all, 1, Min(limit, Len(all)))

\* The key-to-value mapping of a header object, given as its entries in
\* insertion order.
HeaderMap(entries) ==
  [k \in {entries[i].key : i \in 1..Len(entries)} |->
     LET i == CHOOSE j \in 1..Len(entries) : entries[j].key = k
     IN entries[i].value]

\* part_002:10-31
encodeStompWsMessage(msgType, headers, body) ==
  LET fragments == <<<<msgType>>>> \o
                     [i \in 1..Len(headers) |->
                        headers[i].key \o <<COLON>> \o headers[i].value]
      msg == Join(fragments, <<LF>>) \o <<LF, LF>>
  IN msg \o (IF body # Undefined /\ body # <<>> THEN body ELSE <<>>) \o <<NUL>>

\* headers[key] = value
Put(m, k, v) == [x \in DOMAIN m \cup {k} |-> IF x = k THEN v ELSE m[x]]

\* part_002:49-56: the loop over the header lines, from line i on.
RECURSIVE ParseHeaders(_, _, _)
ParseHeaders(metadata, i, headers) ==
  IF i > Len(metadata) THEN headers
  ELSE LET colonIdx == indexOf(metadata[i], <<COLON>>)
       IN ParseHeaders(metadata, i + 1,
            IF colonIdx > 0
              THEN Put(headers, SubSeq(metadata[i], 1, colonIdx),
                       SubSeq(metadata[i], colonIdx + 2, Len(metadata[i])))
              ELSE headers)

\* part_002:36-64
decodeStompWsMessage(msg) ==
  LET parts    == SplitLimit(msg, <<LF, LF>>, 2)
      header   == parts[1]
      data     == IF Len(parts) >= 2 THEN parts[2] ELSE Undefined
      metadata == Split(header, <<LF>>)
      orNull   == IF data = Undefined \/ data = <<>> THEN Null ELSE data
      processedData ==
        IF orNull # Null /\ orNull[Len(orNull)] = NUL
          THEN SubSeq(orNull, 1, Len(orNull) - 1)
          ELSE orNull
  IN [msgType |-> metadata[1],
      headers |-> ParseHeaders(metadata, 2, <<>>),
      data    |-> processedData]

RECURSIVE StringsUpTo(_, _)
StringsUpTo(alphabet, n) ==
  IF n = 0 THEN {<<>>}
  ELSE LET shorter == StringsUpTo(alphabet, n - 1)
       IN shorter \cup {Append(w, ch) : w \in shorter, ch \in alphabet}

\* Header entries a STOMP client sends: a non-empty name without colon or
\* line feed, a value without line feed (it may hold a colon or be empty).
HeaderEntries == [key : {<<"k">>, <<"h">>}, value : {<<>>, <<"v">>, <<COLON>>}]

RECURSIVE HeaderLists(_)
HeaderLists(n) ==
  IF n = 0 THEN {<<>>}
  ELSE LET shorter == HeaderLists(n - 1)
           longer  == {Append(l, e) : l \in shorter, e \in HeaderEntries}
       IN shorter \cup
            {l \in longer : \A i \in 1..(Len(l) - 1) : l[i].key # l[Len(l)].key}

\* The bodies handed to the encoder: omitted, empty, and every string of
\* letters, line feeds and NULs up to MaxBody characters.
Bodies == {Undefined} \cup StringsUpTo({"a", LF, NUL}, MaxBody)

StompInputs == [type : {"CONNECT", "MESSAGE"}, headers : HeaderLists(MaxHeaders),
                body : Bodies]

NoFrame == [type |-> "none", headers |-> <<>>, body |-> Undefined]

NoOutput == [msgType |-> <<>>, headers |-> <<>>, data |-> Null]

\* A caller encodes the frame.
Encode ==
  /\ stompStage = "input"
  /\ stompMsg' = encodeStompWsMessage(stompIn.type, stompIn.headers, stompIn.body)
  /\ stompStage' = "encoded"
  /\ UNCHANGED <<tokenVars, histVars, wsVars, cmdVars, stompIn, stompOut,
                 redundant, droppedWith, failedWith, ghostVars>>

\* The receiver decodes what was encoded.
Decode ==
  /\ stompStage = "encoded"
  /\ stompOut' = decodeStompWsMessage(stompMsg)
  /\ stompStage' = "decoded"
  /\ UNCHANGED <<tokenVars, histVars, wsVars, cmdVars, stompIn, stompMsg,
                 redundant, droppedWith, failedWith, ghostVars>>

\* --------------------------------------------------- authentication utilities
\* Buffers and strings are sequences of numbers: bytes, and UTF-16 code
\* units.  Element i of a buffer is element i + 1 of the sequence.
SECRET_LENGTH == 32
MaxMsg == 3        \* longest base string, in characters
MaxSecretBytes == 3   \* longest secret of a key that is written and read
MaxPrivateBytes == 1  \* longest private key of such a key
MaxId == 2         \* longest installation id of such a key

\* Bitwise operators on non-negative integers, bit by bit.
RECURSIVE BitXor(_, _)
BitXor(a, b) ==
  IF a = 0 /\ b = 0 THEN 0
  ELSE (((a % 2) + (b % 2)) % 2) + 2 * BitXor(a \div 2, b \div 2)

RECURSIVE BitAnd(_, _)
BitAnd(a, b) ==
  IF a = 0 \/ b = 0 THEN 0
  ELSE ((a % 2) * (b % 2)) + (2 * BitAnd(a \div 2, b \div 2))

RECURSIVE BitOr(_, _)
BitOr(a, b) ==
  IF a = 0 /\ b = 0 THEN 0
  ELSE (IF a % 2 = 1 \/ b % 2 = 1 THEN 1 ELSE 0) + 2 * BitOr(a \div 2, b \div 2)

RECURSIVE Pow2(_)
Pow2(n) == IF n = 0 THEN 1 ELSE 2 * Pow2(n - 1)

\* A right shift that moves by seven bits at most.
ShiftRightAtMost7(x, n) == x \div Pow2(Min(n, 7))

\* x << n and x >> n of a non-negative x below 2^31 / 2^n.
ShiftLeft(x, n) == x * Pow2(n)
ShiftRight(x, n) == x \div Pow2(n)

\* Buffer.from(string, "utf-8") for code units below 0xD800.
RECURSIVE Utf8(_)
Utf8(str) ==
  IF str = <<>> THEN <<>>
  ELSE LET c == Head(str)
           enc == IF c < 128 THEN <<c>>
                  ELSE IF c < 2048 THEN <<192 + (c \div 64), 128 + (c % 64)>>
                  ELSE <<224 + (c \div 4096), 128 + ((c \div 64) % 64), 128 + (c % 64)>>
       IN  enc \o Utf8(Tail(str))

\* A check that lets longer secrets through.
SecretAtLeast32(secret32) == Len(secret32) >= SECRET_LENGTH

\* authentication.ts:101  the negation of secret32.length !== 32
SecretIs32(secret32) == Len(secret32) = SECRET_LENGTH

\* A shift amount that is read from the caller's secret, not from the
\* working buffer.
ShiftAmountOfSecret(work, secret32, shiftIdx) == BitAnd(secret32[shiftIdx + 1], 7)

\* authentication.ts:111  work[shiftIdx] & 7
ShiftAmount(work, secret32, shiftIdx) == BitAnd(work[shiftIdx + 1], 7)

\* authentication.ts:108-117: the body of the loop for one byte.
ProofStep(work, secret32, byteVal) ==
  LET idx == byteVal % 32
      shiftIdx == (idx + 1) % 32
      shiftAmount == ShiftAmount(work, secret32, shiftIdx)
      xorResult == BitXor(byteVal, work[idx + 1])
      rotated == BitAnd(BitOr(ShiftLeft(xorResult, shiftAmount),
                              ShiftRight(xorResult, 8 - shiftAmount)), 255)
  IN  [work EXCEPT ![idx + 1] = rotated]

\* authentication.ts:107-118: the loop over the bytes from the k-th on.
RECURSIVE ProofLoop(_, _, _, _)
ProofLoop(work, secret32, bytes, k) ==
  IF k > Len(bytes) THEN work
  ELSE ProofLoop(ProofStep(work, secret32, bytes[k]), secret32, bytes, k + 1)

\* A Buffer.from that returns the buffer it was given.
BufferShared(buf) == [bytes |-> buf, shared |-> TRUE]

\* authentication.ts:105  Buffer.from(buffer) copies the bytes.
BufferFrom(buf) == [bytes |-> buf, shared |-> FALSE]

\* authentication.ts:97-121: generateRequestProof.  The result holds the
\* outcome, the working buffer that is hashed (the digest and its base64
\* text are a function of it), the number of bytes of the base string that
\* were processed, and the caller's secret buffer as the call leaves it.
generateRequestProof(baseString, secret32) ==
  IF ~SecretIs32(secret32)
    THEN [status |-> "error", work |-> <<>>, read |-> 0, secret32 |-> secret32]
    ELSE LET copy == BufferFrom(secret32)
             baseStringBytes == Utf8(baseString)
             work == ProofLoop(copy.bytes, secret32, baseStringBytes, 1)
         IN  [status |-> "ok", work |-> work, read |-> Len(baseStringBytes),
              secret32 |-> IF copy.shared THEN work ELSE secret32]

\* The base64 alphabet: the character of a 6-bit value.
B64Char(v) ==
  IF v < 26 THEN 65 + v
  ELSE IF v < 52 THEN 97 + (v - 26)
  ELSE IF v < 62 THEN 48 + (v - 52)
  ELSE IF v = 62 THEN 43 ELSE 47

\* The 6-bit value of a character, -1 for a character outside the
\* alphabet; the decoder also takes '-' and '_' for 62 and 63.
B64Value(ch) ==
  IF ch >= 65 /\ ch <= 90 THEN ch - 65
  ELSE IF ch >= 97 /\ ch <= 122 THEN ch - 97 + 26
  ELSE IF ch >= 48 /\ ch <= 57 THEN ch - 48 + 52
  ELSE IF ch = 43 \/ ch = 45 THEN 62
  ELSE IF ch = 47 \/ ch = 95 THEN 63
  ELSE -1

\* authentication.ts:13-15: data.toString("base64"), padded with '='.
RECURSIVE b64(_)
b64(data) ==
  IF data = <<>> THEN <<>>
  ELSE LET n == Len(data)
           d1 == data[1]
           d2 == IF n >= 2 THEN data[2] ELSE 0
           d3 == IF n >= 3 THEN data[3] ELSE 0
           c1 == B64Char(d1 \div 4)
           c2 == B64Char(((d1 % 4) * 16) + (d2 \div 16))
           c3 == B64Char(((d2 % 16) * 4) + (d3 \div 64))
           c4 == B64Char(d3 % 64)
       IN  IF n = 1 THEN <<c1, c2, 61, 61>>
           ELSE IF n = 2 THEN <<c1, c2, c3, 61>>
           ELSE <<c1, c2, c3, c4>> \o b64(SubSeq(data, 4, n))

\* The 6-bit values of a base64 text: characters outside the alphabet are
\* skipped and the first '=' ends the data.
RECURSIVE Sextets(_)
Sextets(str) ==
  IF str = <<>> \/ Head(str) = 61 THEN <<>>
  ELSE IF B64Value(Head(str)) < 0 THEN Sextets(Tail(str))
  ELSE <<B64Value(Head(str))>> \o Sextets(Tail(str))

\* The bytes of a sequence of 6-bit values.
RECURSIVE FromSextets(_)
FromSextets(sx) ==
  IF Len(sx) < 2 THEN <<>>
  ELSE LET b1 == (sx[1] * 4) + (sx[2] \div 16)
           b2 == ((sx[2] % 16) * 16) + (IF Len(sx) >= 3 THEN sx[3] \div 4 ELSE 0)
           b3 == (IF Len(sx) >= 3 THEN (sx[3] % 4) * 64 ELSE 0)
                   + (IF Len(sx) >= 4 THEN sx[4] ELSE 0)
       IN  IF Len(sx) = 2 THEN <<b1>>
           ELSE IF Len(sx) = 3 THEN <<b1, b2>>
           ELSE <<b1, b2, b3>> \o FromSextets(SubSeq(sx, 5, Len(sx)))

\* authentication.ts:224-225: Buffer.from(text, "base64")
BufferFromBase64(str) == FromSextets(Sextets(str))

HexDigit(v) == IF v < 10 THEN 48 + v ELSE 97 + (v - 10)

HexValue(ch) ==
  IF ch >= 48 /\ ch <= 57 THEN ch - 48
  ELSE IF ch >= 97 /\ ch <= 102 THEN ch - 87
  ELSE IF ch >= 65 /\ ch <= 70 THEN ch - 55
  ELSE -1

\* A quoting that escapes the quotation mark and nothing else.
EscapeQuoteOnly(c) == IF c = 34 THEN <<92, 34>> ELSE <<c>>

\* JSON.stringify of one code unit of a string (below 0xD800).
Escape(c) ==
  CASE c = 34 -> <<92, 34>>
    [] c = 92 -> <<92, 92>>
    [] c = 8 -> <<92, 98>>
    [] c = 9 -> <<92, 116>>
    [] c = 10 -> <<92, 110>>
    [] c = 12 -> <<92, 102>>
    [] c = 13 -> <<92, 114>>
    [] c < 32 /\ c \notin {8, 9, 10, 12, 13} ->
         <<92, 117, 48, 48, HexDigit(c \div 16), HexDigit(c % 16)>>
    [] OTHER -> <<c>>

\* JSON.stringify of a string: its characters escaped, in quotation marks.
RECURSIVE EscapeAll(_)
EscapeAll(str) ==
  IF str = <<>> THEN <<>> ELSE Escape(Head(str)) \o EscapeAll(Tail(str))

Quote(str) == <<34>> \o EscapeAll(str) \o <<34>>

\* JSON.stringify of an object whose values are strings; the object is the
\* sequence of its <<key, value>> pairs in insertion order.
RECURSIVE Members(_)
Members(obj) ==
  IF obj = <<>> THEN <<>>
  ELSE Quote(obj[1][1]) \o <<58>> \o Quote(obj[1][2])
         \o (IF Len(obj) > 1 THEN <<44>> ELSE <<>>) \o Members(Tail(obj))

JSONstringify(obj) == <<123>> \o Members(obj) \o <<125>>

SyntaxError == [ok |-> FALSE, value |-> <<>>, next |-> 0]

\* The character an escape sequence \x stands for, -1 if there is none.
Unescape(ch) ==
  CASE ch = 34 -> 34
    [] ch = 92 -> 92
    [] ch = 47 -> 47
    [] ch = 98 -> 8
    [] ch = 102 -> 12
    [] ch = 110 -> 10
    [] ch = 114 -> 13
    [] ch = 116 -> 9
    [] OTHER -> -1

\* JSON.parse of a string literal whose opening quotation mark is before
\* position i; acc is what was read so far.
RECURSIVE ScanString(_, _, _)
ScanString(text, i, acc) ==
  IF i > Len(text) \/ text[i] < 32 THEN SyntaxError
  ELSE IF text[i] = 34 THEN [ok |-> TRUE, value |-> acc, next |-> i + 1]
  ELSE IF text[i] = 92
    THEN IF i + 1 > Len(text) THEN SyntaxError
         ELSE IF text[i + 1] = 117
           THEN IF \/ i + 5 > Len(text)
                   \/ \E k \in 2..5 : HexValue(text[i + k]) < 0
                  THEN SyntaxError
                  ELSE ScanString(text, i + 6,
                         Append(acc, (HexValue(text[i + 2]) * 4096)
                                       + (HexValue(text[i + 3]) * 256)
                                       + (HexValue(text[i + 4]) * 16)
                                       + HexValue(text[i + 5])))
         ELSE IF Unescape(text[i + 1]) < 0 THEN SyntaxError
         ELSE ScanString(text, i + 2, Append(acc, Unescape(text[i + 1])))
  ELSE ScanString(text, i + 1, Append(acc, text[i]))

\* JSON.parse of the members of an object from position i on.
RECURSIVE ScanMembers(_, _, _)
ScanMembers(text, i, obj) ==
  IF i > Len(text) \/ text[i] # 34 THEN SyntaxError
  ELSE LET key == ScanString(text, i + 1, <<>>)
       IN  IF ~key.ok \/ key.next + 1 > Len(text) \/ text[key.next] # 58
                \/ text[key.next + 1] # 34
             THEN SyntaxError
             ELSE LET val == ScanString(text, key.next + 2, <<>>)
                      more == Append(obj, <<key.value, val.value>>)
                  IN  IF ~val.ok \/ val.next > Len(text) THEN SyntaxError
                      ELSE IF text[val.next] = 44
                        THEN ScanMembers(text, val.next + 1, more)
                      ELSE IF text[val.next] = 125 /\ val.next = Len(text)
                        THEN [ok |-> TRUE, value |-> more, next |-> val.next + 1]
                      ELSE SyntaxError

\* JSON.parse of the text of an object whose values are strings, written
\* without white space.
JSONparse(text) ==
  IF Len(text) < 2 \/ text[1] # 123 THEN SyntaxError
  ELSE IF text = <<123, 125>> THEN [ok |-> TRUE, value |-> <<>>, next |-> 3]
  ELSE ScanMembers(text, 2, <<>>)

\* obj[key]: the value of the last member of that name.
Get(obj, key) ==
  LET at == {i \in 1..Len(obj) : obj[i][1] = key}
  IN  IF at = {} THEN Undefined
      ELSE obj[CHOOSE i \in at : \A j \in at : j <= i][2]

\* The property names "secret", "privateKey" and "installationId".
SecretName == <<115, 101, 99, 114, 101, 116>>
PrivateKeyName == <<112, 114, 105, 118, 97, 116, 101, 75, 101, 121>>
InstallationIdName ==
  <<105, 110, 115, 116, 97, 108, 108, 97, 116, 105, 111, 110, 73, 100>>

\* authentication.ts:210-217
installationKeyToJSON(key) ==
  JSONstringify(<< <<SecretName, b64(key.secret)>>,
                   <<PrivateKeyName, b64(key.privateKey)>>,
                   <<InstallationIdName, key.installationId>> >>)

\* authentication.ts:222-229: the key, or the SyntaxError JSON.parse throws.
installationKeyFromJSON(json) ==
  LET parsed == JSONparse(json)
      obj == parsed.value
  IN  IF ~parsed.ok THEN [error |-> "SyntaxError"]
      ELSE [secret |-> BufferFromBase64(Get(obj, SecretName)),
            privateKey |-> BufferFromBase64(Get(obj, PrivateKeyName)),
            installationId |-> Get(obj, InstallationIdName)]

\* The base strings: the characters ' ', '!', 'A' and U+00E9 (two bytes
\* in UTF-8), whose bytes select the working bytes 0, 1, 3 and 9.
MsgChars == {32, 33, 65, 233}
Messages == StringsUpTo(MsgChars, MaxMsg)

\* The secrets: buffers of 0, 31, 32 and 33 bytes, byte i being
\* slope * i + offset modulo 256.
SecretLengths == {0, SECRET_LENGTH - 1, SECRET_LENGTH, SECRET_LENGTH + 1}
SecretSlopes == {0, 1, 37}
SecretOffsets == {0, 255}
Secrets ==
  {[i \in 1..n |-> ((a * (i - 1)) + c) % 256] :
     n \in SecretLengths, a \in SecretSlopes, c \in SecretOffsets}

\* The keys that are written and read: every length modulo 3 of the
\* buffers, bytes that use the first and the last characters of the base64
\* alphabet, ids with characters that JSON escapes.
KeyBytes == {0, 77, 255}
IdChars == {1, 10, 34, 92, 97}
Keys ==
  [secret : StringsUpTo(KeyBytes, MaxSecretBytes),
   privateKey : StringsUpTo(KeyBytes, MaxPrivateBytes),
   installationId : StringsUpTo(IdChars, MaxId)]

NoAuthInput == [kind |-> "none"]
NoAuthOutput == [status |-> "none"]

AuthInputs ==
  {[kind |-> "proof", baseString |-> m, secret32 |-> s] :
     m \in Messages, s \in Secrets}
    \cup {[kind |-> "key", key |-> k] : k \in Keys}

\* A caller asks for the proof of a base string; secret32 of authIn is the
\* caller's buffer, before and after the call.
Prove ==
  /\ authStage = "input" /\ authIn.kind = "proof"
  /\ authOut' = generateRequestProof(authIn.baseString, authIn.secret32)
  /\ authIn' = [authIn EXCEPT !.secret32 = authOut'.secret32]
  /\ authStage' = "proved"
  /\ UNCHANGED <<tokenVars, histVars, wsVars, cmdVars, stompVars, redundant,
                 droppedWith, failedWith, disconnectCalls, respondedAt, frameVars,
                 polled, earlySuccess, authText, authAgain>>

\* The caller asks again, with the same arguments.
ProveAgain ==
  /\ authStage = "proved"
  /\ authAgain' = generateRequestProof(authIn.baseString, authIn.secret32)
  /\ authStage' = "again"
  /\ UNCHANGED <<tokenVars, histVars, wsVars, cmdVars, stompVars, redundant,
                 droppedWith, failedWith, disconnectCalls, respondedAt, frameVars,
                 polled, earlySuccess, authIn, authText,
                 authOut>>

\* A key is serialized.
WriteKey ==
  /\ authStage = "input" /\ authIn.kind = "key"
  /\ authText' = installationKeyToJSON(authIn.key)
  /\ authStage' = "written"
  /\ UNCHANGED <<tokenVars, histVars, wsVars, cmdVars, stompVars, redundant,
                 droppedWith, failedWith, disconnectCalls, respondedAt, frameVars,
                 polled, earlySuccess, authIn, authOut,
                 authAgain>>

\* The text is read back.
ReadKey ==
  /\ authStage = "written"
  /\ authOut' = installationKeyFromJSON(authText)
  /\ authStage' = "read"
  /\ UNCHANGED <<tokenVars, histVars, wsVars, cmdVars, stompVars, redundant,
                 droppedWith, failedWith, disconnectCalls, respondedAt, frameVars,
                 polled, earlySuccess, authIn, authText,
                 authAgain>>

\* ------------------------------------------------------------------- time
\* The instants at which the held token changes class.
TokenInstants ==
  IF accessToken = NoToken THEN {}
  ELSE { accessToken.expiresAt - TOKEN_TIME_TO_REFRESH,
         accessToken.expiresAt - TOKEN_TIME_TO_REFRESH + 1,
         accessToken.expiresAt,
         accessToken.expiresAt + 1 }

\* A poll timer (100 ms) of a caller that would find the lock free fires
\* before the clock reaches another second of interest.
PollDue == \E p \in Procs : pc[p] = "poll" /\ LockFree

\* The timers that are running: commandTimeout of each pending command and
\* the reconnect timer.
Deadlines ==
  {timerAt[c] : c \in {d \in Cmds : timer[d] = "armed"}}
    \cup (IF pc[WS] = "backoff" THEN {backoffAt} ELSE {})

\* Time passes, up to an instant of interest and not past a running timer.
Advance(instants) ==
  /\ Alive
  /\ UNCHANGED restVars
  /\ ~PollDue
  /\ \E t \in instants :
       /\ t > now
       /\ t <= MaxTime
       /\ \A d \in Deadlines : t <= d
       /\ now' = t
  /\ UNCHANGED <<accessToken, accessTokenLock, pc, tokenReqs, served, outcome,
                 histVars, sessVars>>

Tick == Advance(TokenInstants)

TimerTick == Advance(Deadlines)

\* ------------------------------------------------------------ specification
\* The client after construction.
InitClient ==
  /\ now = 0
  /\ accessToken = NoToken
  /\ accessTokenLock = FALSE
  /\ pc = [p \in Procs |-> "idle"]
  /\ tokenReqs = {}
  /\ served = 0
  /\ outcome = [by |-> -1, kind |-> "none"]
  /\ calls = 0
  /\ born = [p \in Procs |-> Unborn]
  /\ signInsBy = [k \in TokIds |-> [c \in Classes |-> 0]]
  /\ refreshesBy = [k \in TokIds |-> [c \in Classes |-> 0]]
  /\ resultsBy = [k \in TokIds |-> [c \in Classes |-> {}]]
  /\ failedTok = {}
  /\ autoReconnect = TRUE
  /\ sock = 0
  /\ readyState = [k \in 1..MaxAttempts |-> "NONE"]
  /\ handlers = {}
  /\ websocket = [ws |-> 0, sub |-> 0]
  /\ bearer = 0
  /\ sent = <<>>
  /\ subs = 0
  /\ backoffAt = -1
  /\ fatal = "none"
  /\ endedAt = -1
  /\ waited = -1
  /\ issued = 0
  /\ ackId = [c \in Cmds |-> NoId]
  /\ pendingCommands = <<>>
  /\ timer = [c \in Cmds |-> "none"]
  /\ timerAt = [c \in Cmds |-> -1]
  /\ ret = [c \in Cmds |-> "none"]
  /\ resolveCalls = [c \in Cmds |-> 0]
  /\ removals = [c \in Cmds |-> 0]
  /\ upAtPost = [c \in Cmds |-> "unknown"]
  /\ confirmation = [c \in Cmds |-> "none"]
  /\ redundant = {}
  /\ droppedWith = "none"
  /\ failedWith = [p \in Procs |-> NoFailure]
  /\ disconnectCalls = [s \in 1..MaxAttempts |-> 0]
  /\ respondedAt = -1
  /\ connectedSeen = [s \in 1..MaxAttempts |-> 0]
  /\ ignoredOn = {}
  /\ polled = {}
  /\ notified = [frames |-> 0, calls |-> 0, saw |-> "none"]
  /\ earlySuccess = {}

\* The codec is not in use.
CodecOff ==
  /\ stompStage = "off"
  /\ stompIn = NoFrame
  /\ stompMsg = <<>>
  /\ stompOut = NoOutput

\* The authentication utilities are not in use.
AuthOff ==
  /\ authStage = "idle"
  /\ authIn = NoAuthInput
  /\ authText = <<>>
  /\ authOut = NoAuthOutput
  /\ authAgain = NoAuthOutput

Init ==
  /\ InitClient
  /\ CodecOff
  /\ AuthOff

\* The authentication utilities are handed one input out of AuthInputs.
InitAuth ==
  /\ InitClient
  /\ CodecOff
  /\ authStage = "input"
  /\ authIn \in AuthInputs
  /\ authText = <<>>
  /\ authOut = NoAuthOutput
  /\ authAgain = NoAuthOutput

\* The codec is handed one frame out of StompInputs.
InitCodec ==
  /\ InitClient
  /\ AuthOff
  /\ stompStage = "input"
  /\ stompIn \in StompInputs
  /\ stompMsg = <<>>
  /\ stompOut = NoOutput

\* The token manager under concurrent callers, over two token lifetimes.
Next ==
  \/ \E p \in Callers : CallStart(p)
  \/ \E p \in Procs : Poll(p)
  \/ \E p \in Procs : TokenSuccess(p)
  \/ \E p \in Procs : TokenFailure(p)
  \/ Tick

\* The realtime session and the commands: the reconnect loop, the transport
\* and the server, executeCommand calls and their timers.  A process that
\* an unhandled error has terminated takes no further step.  The server
\* sends CONNECTED and dashboard payloads only.
NextSession ==
  \/ \E auto \in BOOLEAN : WebsocketConnect(auto)
  \/ \E p \in Procs : Poll(p)
  \/ \E p \in Procs : TokenSuccess(p)
  \/ \E p \in Procs : TokenFailure(p)
  \/ TransportOpen
  \/ TransportError
  \/ TransportClose
  \/ BackoffFire
  \/ \E f \in ConnectedFrames : HandshakeFrame(f)
  \/ \E f \in CommandFrames : SteadyFrame(f)
  \/ Disconnect
  \/ \E c \in Cmds : CmdStart(c)
  \/ \E c \in Cmds : ServerAccept(c)
  \/ \E c \in Cmds : PostFail(c)
  \/ \E c \in Cmds : PostResponse(c)
  \/ \E c \in Cmds : CommandTimeout(c)
  \/ TimerTick

SpecToken == Init /\ [][Next]_vars

\* The token manager when every sign-in or refresh request gets its
\* response or its error, and a waiting caller whose poll timer keeps finding
\* moments at which the lock is free takes it at one of them.
SpecTokenFair ==
  /\ Init
  /\ [][Next]_vars
  /\ \A p \in Callers : WF_vars(TokenSuccess(p) \/ TokenFailure(p))
  /\ \A p \in Callers : SF_vars(Poll(p))

SpecSession == Init /\ [][NextSession]_vars

\* The same when the event loop runs every timer that is due: the poll
\* timers of asyncGetAccessToken, the reconnect timer and commandTimeout.
\* The server and the transport owe nothing.
SpecSessionFair ==
  /\ Init
  /\ [][NextSession]_vars
  /\ WF_vars(TimerTick)
  /\ WF_vars(BackoffFire)
  /\ WF_vars(\E p \in Procs : Poll(p))
  /\ \A c \in Cmds : WF_vars(CommandTimeout(c))

\* The same with a server that sends frames of every kind.
NextReceive ==
  \/ NextSession
  \/ \E f \in OtherFrames : SteadyFrame(f)

SpecReceive == Init /\ [][NextReceive]_vars

\* The session and the commands with a server that sends, besides CONNECTED
\* and dashboard payloads, ERROR frames.
NextError ==
  \/ NextSession
  \/ \E f \in ErrorFrames : SteadyFrame(f)

SpecError == Init /\ [][NextError]_vars

\* The reconnect loop alone, with the transport and the server.
NextLoop ==
  \/ \E auto \in BOOLEAN : WebsocketConnect(auto)
  \/ TokenSuccess(WS)
  \/ TokenFailure(WS)
  \/ TransportOpen
  \/ TransportError
  \/ TransportClose
  \/ BackoffFire
  \/ \E f \in HandshakeFrames : HandshakeFrame(f)
  \/ \E f \in SteadyFrames : SteadyFrame(f)
  \/ Disconnect
  \/ DisconnectIdle
  \/ TimerTick

\* The event loop runs every timer that is due, and a token request gets
\* its response or its error; the transport and the server owe nothing.
SpecLoop ==
  /\ Init
  /\ [][NextLoop]_vars
  /\ WF_vars(BackoffFire)
  /\ WF_vars(TimerTick)
  /\ WF_vars(TokenSuccess(WS) \/ TokenFailure(WS))

\* The reconnect loop of a caller whose connect callback may throw.
NextCallback ==
  \/ NextLoop
  \/ \E f \in ConnectedFrames : ConnectCallbackThrows(f)

SpecCallback == Init /\ [][NextCallback]_vars

NextCodec == Encode \/ Decode

SpecCodec == InitCodec /\ [][NextCodec]_vars

\* The request proof, asked for twice, and a key written and read back.
NextAuth == Prove \/ ProveAgain \/ WriteKey \/ ReadKey

SpecAuth == InitAuth /\ [][NextAuth]_vars

\* ================================================================= claims
Holders == {p \in Procs : pc[p] \in {"signin", "refresh"}}

\* C1: in every reachable state at most one sign-in or refresh request of
\* asyncGetAccessToken is in flight, and at most one caller is between
\* taking and releasing accessTokenLock; the lock is set exactly then.
C1_OneTokenRequestInFlight ==
  /\ Cardinality(tokenReqs) <= 1
  /\ Cardinality(Holders) <= 1
  /\ accessTokenLock <=> Holders # {}
  /\ \A r \in tokenReqs : r.by \in Holders

\* C1 witness: a request is in flight while another caller waits on the lock.
C1_Witness ==
  \E p, q \in Procs : pc[p] = "signin" /\ pc[q] = "poll" /\ tokenReqs # {}

BornAs(p, k, c) == born[p] = [tok |-> k, cls |-> c]

\* C2: of the calls started while no token was held, as long as no sign-in
\* failed, exactly one issued a sign-in request, none a refresh, and all of
\* them returned the same access token.
C2_OneSignInSameToken ==
  0 \notin failedTok =>
    /\ signInsBy[0]["none"] <= 1
    /\ refreshesBy[0]["none"] = 0
    /\ Cardinality(resultsBy[0]["none"]) <= 1
    /\ resultsBy[0]["none"] # {} => signInsBy[0]["none"] = 1

\* C2 witness: two calls started with no token held have both returned, after
\* one successful sign-in.
C2_Witness ==
  /\ 0 \notin failedTok
  /\ signInsBy[0]["none"] = 1
  /\ resultsBy[0]["none"] = {1}
  /\ \E p, q \in Procs :
       /\ p # q
       /\ BornAs(p, 0, "none") /\ BornAs(q, 0, "none")
       /\ pc[p] = "idle" /\ pc[q] = "idle"

\* C3: of the calls started while token k was valid but inside the refresh
\* window, as long as no refresh of k failed, exactly one issued a refresh
\* request and none a sign-in, however many they are.
C3_OneRefreshNoSignIn ==
  \A k \in TokIds \ {0} :
    k \notin failedTok =>
      /\ refreshesBy[k]["window"] <= 1
      /\ signInsBy[k]["window"] = 0
      /\ resultsBy[k]["window"] # {} => refreshesBy[k]["window"] = 1

\* C3 witness: three calls started inside the refresh window of one token
\* have all returned after a single refresh.
C3_Witness ==
  \E k \in TokIds \ {0} :
    /\ k \notin failedTok
    /\ refreshesBy[k]["window"] = 1
    /\ \A p \in Callers : BornAs(p, k, "window") /\ pc[p] = "idle"
    /\ accessToken.accessToken # k

\* executeCommand went on to wait for a confirmation: it armed its timer and
\* registered a pending entry.
Registered(c) == timer[c] # "none"

\* C4: every executeCommand call that registered a pending entry has its
\* promise resolved at most once and its entry removed at most once; once it
\* has returned, exactly one of the confirmation (timer cleared) and the
\* timeout (timer fired) resolved it and removed the entry, and until then
\* the entry is in pendingCommands.
C4_SettledExactlyOnce ==
  \A c \in Cmds :
    /\ resolveCalls[c] <= 1
    /\ removals[c] <= 1
    /\ Registered(c) =>
         /\ pc[c] \in {"pending", "done"}
         /\ pc[c] = "pending" =>
              /\ resolveCalls[c] = 0 /\ removals[c] = 0
              /\ timer[c] = "armed"
              /\ ackId[c] \in DOMAIN pendingCommands
         /\ pc[c] = "done" =>
              /\ resolveCalls[c] = 1 /\ removals[c] = 1
              /\ timer[c] \in {"cleared", "fired"}
              /\ ackId[c] \notin DOMAIN pendingCommands

\* C4 witness: one command was settled by its confirmation and another by
\* its timeout, and the server confirmed the second one afterwards.
C4_Witness ==
  \E c, d \in Cmds :
    /\ timer[c] = "cleared" /\ resolveCalls[c] = 1
    /\ timer[d] = "fired" /\ resolveCalls[d] = 1
    /\ confirmation[d] = "late"

\* C5: a command whose Success confirmation reached the receive path while
\* its entry was pending has returned true and its id is no longer in
\* pendingCommands.
C5_SuccessConfirms ==
  \A c \in Cmds :
    confirmation[c] = "Success" =>
      /\ ret[c] = "true"
      /\ pc[c] = "done"
      /\ ackId[c] \notin DOMAIN pendingCommands

\* C5 witness: a session was connected when the POST returned and the
\* Success confirmation came before the timer fired.
C5_Witness ==
  \E c \in Cmds :
    /\ confirmation[c] = "Success"
    /\ upAtPost[c] = "up"
    /\ timer[c] = "cleared"
    /\ ret[c] = "true"

\* C6: a command whose timer fired has returned false and its entry is
\* gone, removed once; this stays so when a confirmation with its id arrives
\* afterwards.
C6_TimeoutReturnsFalse ==
  \A c \in Cmds :
    timer[c] = "fired" =>
      /\ ret[c] = "false"
      /\ pc[c] = "done"
      /\ ackId[c] \notin DOMAIN pendingCommands
      /\ resolveCalls[c] = 1
      /\ removals[c] = 1

\* C6 witness: the timer fired ten seconds after the registration and a
\* confirmation with the command's id arrived after that.
C6_Witness ==
  \E c \in Cmds :
    /\ timer[c] = "fired"
    /\ now >= timerAt[c]
    /\ confirmation[c] = "late"
    /\ ret[c] = "false"

\* C7: a command whose POST returned while no realtime session was
\* connected has returned true at once: it armed no timer and no entry with
\* its id was ever in pendingCommands.
C7_NoSessionReturnsTrue ==
  \A c \in Cmds :
    upAtPost[c] = "down" =>
      /\ ret[c] = "true"
      /\ pc[c] = "done"
      /\ ~Registered(c)
      /\ ackId[c] \notin DOMAIN pendingCommands
      /\ resolveCalls[c] = 0 /\ removals[c] = 0

\* C7 witness: the POSTs of two commands returned while no session was
\* connected, and an established session has closed.
C7_Witness ==
  \E c, d \in Cmds :
    /\ upAtPost[c] = "down" /\ ret[c] = "true"
    /\ upAtPost[d] = "down" /\ ret[d] = "true"
    /\ ackId[c] < ackId[d]
    /\ websocket.ws # 0
    /\ readyState[websocket.ws] = "CLOSED"

\* C8: whenever the transport has failed or closed during a handshake whose
\* listeners are registered and that has not seen CONNECTED, the loop
\* eventually leaves the handshake (for the backoff and the next attempt).
C8_AbortedHandshakeEnds ==
  (/\ sock > 0
   /\ pc[WS] = "handshake"
   /\ "setupError" \in handlers
   /\ readyState[sock] \in {"CLOSING", "CLOSED"})
    ~> (pc[WS] # "handshake")

\* C9: every connection attempt that follows the end of a connection or of
\* a failed attempt starts at least the reconnect delay after that end.
C9_BackoffBeforeEveryAttempt ==
  waited = -1 \/ waited >= RECONNECT_DELAY \div 1000

\* C10: a frame with well-formed headers and a non-empty body, encoded and
\* then decoded, comes back with the same type, the same key-to-value
\* header map and the same body.
C10_RoundTrip ==
  (stompStage = "decoded" /\ stompIn.body # Undefined /\ stompIn.body # <<>>) =>
    /\ stompOut.msgType = <<stompIn.type>>
    /\ stompOut.headers = HeaderMap(stompIn.headers)
    /\ stompOut.data = stompIn.body

\* C11: a frame encoded with the body omitted or empty, then decoded, comes
\* back with the same type, the same header map and the body null.
C11_OmittedBodyDecodesNull ==
  (stompStage = "decoded" /\ stompIn.body \in {Undefined, <<>>}) =>
    /\ stompOut.msgType = <<stompIn.type>>
    /\ stompOut.headers = HeaderMap(stompIn.headers)
    /\ stompOut.data = Null

\* C12: in every step the token requests that go out are decided by the
\* held token and now alone: at most one goes out; it is a sign-in exactly
\* if no token is held or expiresAt < now, a refresh exactly if
\* now <= expiresAt < now + 600 s, and then it carries the stored refresh
\* token; with expiresAt >= now + 600 s no request goes out, the held token
\* stays and a call that returns returns it.
C12_PolicyFromTokenAndNow ==
  [][/\ Cardinality(tokenReqs' \ tokenReqs) <= 1
     /\ \A r \in tokenReqs' \ tokenReqs :
          /\ r.kind \in {"signin", "refresh"}
          /\ r.kind = "signin" <=>
               (accessToken = NoToken \/ accessToken.expiresAt < now)
          /\ r.kind = "refresh" <=>
               /\ accessToken # NoToken
               /\ now <= accessToken.expiresAt
               /\ accessToken.expiresAt < now + TOKEN_TIME_TO_REFRESH
          /\ r.kind = "refresh" => r.refreshToken = accessToken.refreshToken
     /\ (accessToken # NoToken
           /\ accessToken.expiresAt >= now + TOKEN_TIME_TO_REFRESH) =>
          /\ tokenReqs' = tokenReqs
          /\ accessToken' = accessToken
          /\ \A k \in TokIds, c \in Classes :
               resultsBy'[k][c] \subseteq
                 resultsBy[k][c] \cup {accessToken.accessToken}
    ]_vars

\* C12 witness: a call has reused a token that needed nothing, another has
\* signed in over an expired token, and a refresh carrying the stored
\* refresh token is in flight, decided in the last second of the token.
C12_Witness ==
  /\ \E k \in TokIds : resultsBy[k]["fresh"] # {}
  /\ \E k \in TokIds : signInsBy[k]["expired"] >= 1
  /\ accessToken.expiresAt = now
  /\ \E r \in tokenReqs :
       r.kind = "refresh" /\ r.refreshToken = accessToken.refreshToken

\* C13: a command whose confirmation reached the receive path while its
\* entry was pending, with a status other than Success, has returned false
\* as its result (no error), and its entry is gone.
C13_OtherStatusReturnsFalse ==
  \A c \in Cmds :
    confirmation[c] = "other" =>
      /\ ret[c] = "false"
      /\ pc[c] = "done"
      /\ ackId[c] \notin DOMAIN pendingCommands
      /\ removals[c] = 1

\* C13 witness: a registered command was confirmed with another status
\* before its timer fired.
C13_Witness ==
  \E c \in Cmds :
    /\ confirmation[c] = "other"
    /\ upAtPost[c] = "up"
    /\ timer[c] = "cleared"
    /\ ret[c] = "false"
    /\ resolveCalls[c] = 1

\* C14: once the caller has ended a session with websocket.disconnect()
\* (its UNSUBSCRIBE is among the frames sent), the loop creates no further
\* WebSocket: the current one stays the one that was disconnected.
C14_NoAttemptAfterDisconnect ==
  \A i \in 1..Len(sent) : sent[i].type = "UNSUBSCRIBE" => sock = sent[i].sock

\* C15: whenever the access token for the CONNECT frame could not be
\* obtained (the loop is in the handshake and setupWebsocketConnection has
\* registered no listener), the loop eventually goes on to the backoff or
\* leaves websocketConnect.
C15_TokenFailureLeadsToRetryOrExit ==
  (pc[WS] = "handshake" /\ handlers = {})
    ~> (pc[WS] \in {"backoff", "returned", "capped"})

Unsubscribes(k) ==
  {i \in 1..Len(sent) : sent[i].sock = k /\ sent[i].type = "UNSUBSCRIBE"}

\* C16: however often websocket.disconnect() is called, each connection
\* sees at most one UNSUBSCRIBE (one close), carrying the subscription id of
\* its SUBSCRIBE and sent after it; the step that sends it finds the
\* transport open and leaves it closing; and a call that finds no session
\* or a transport that is not open changes nothing.
C16_DisconnectIdempotent ==
  /\ [](\A k \in 1..MaxAttempts :
          /\ Cardinality(Unsubscribes(k)) <= 1
          /\ \A i \in Unsubscribes(k) :
               \E j \in 1..(i - 1) :
                 sent[j] = [sock |-> k, type |-> "SUBSCRIBE", arg |-> sent[i].arg])
  /\ [][/\ (Len(sent') > Len(sent) /\ sent'[Len(sent')].type = "UNSUBSCRIBE") =>
             /\ readyState[sent'[Len(sent')].sock] = "OPEN"
             /\ readyState'[sent'[Len(sent')].sock] = "CLOSING"
        /\ redundant' # redundant =>
             UNCHANGED <<tokenVars, histVars, wsVars, cmdVars>>
       ]_vars

\* C16 witness: a session was disconnected, and disconnect() was called
\* again on it while it was closing or closed, and once before any session
\* existed.
C16_Witness ==
  /\ 0 \in redundant
  /\ \E k \in redundant : k # 0 /\ Cardinality(Unsubscribes(k)) = 1

\* C17: no frame makes the steady-state receive path throw, and the step
\* that drops a frame (an ERROR frame, a frame of another or of no
\* recognisable type, a MESSAGE without body or with a body that does not
\* parse) leaves the pending commands, the token state and the connection
\* state as they were.
C17_ReceivePathNeverThrows ==
  /\ [](fatal # "receiveError")
  /\ [][droppedWith' # droppedWith =>
          UNCHANGED <<tokenVars, histVars, wsVars, cmdVars>>]_vars

\* C17 witness: a frame was dropped while a command was pending, and the
\* command is still pending.
C17_Witness ==
  /\ droppedWith = "pending"
  /\ pendingCommands # <<>>
  /\ \E c \in Cmds : pc[c] = "pending" /\ timer[c] = "armed"
  /\ fatal = "none"

\* C18: a registered command is settled by a frame only if that frame
\* carried an entry with the command's own acknowledgement id, and then with
\* that entry's status: a command whose timer was cleared has been
\* confirmed under its id and returned true for Success and false for any
\* other status; a pending command that no entry has named is still pending.
C18_CorrelatedById ==
  \A c \in Cmds :
    /\ timer[c] = "cleared" =>
         /\ confirmation[c] \in {"Success", "other"}
         /\ ret[c] = IF confirmation[c] = "Success" THEN "true" ELSE "false"
    /\ (timer[c] = "armed" /\ ackId[c] \in DOMAIN pendingCommands) =>
         /\ confirmation[c] = "none"
         /\ pendingCommands[ackId[c]] = c
         /\ ret[c] = "none"

\* C18 witness: two commands were pending at once; the one issued later
\* has been confirmed, with Success, while the earlier one still waits.
C18_Witness ==
  \E c, d \in Cmds :
    /\ ackId[c] # NoId /\ ackId[c] < ackId[d]
    /\ pc[c] = "pending" /\ confirmation[c] = "none"
    /\ timer[d] = "cleared" /\ confirmation[d] = "Success" /\ ret[d] = "true"

\* C19: a sign-in or refresh answered with 401 makes asyncGetAccessToken
\* fail with AuthFail, and one that fails in any other way (another status
\* that is no success, no response at all) with RequestNotSuccessful; in the
\* step in which the request fails the lock is released and the error is
\* what the caller gets: the direct caller's call ends with it, and an
\* executeCommand that needed the token ends with it without having posted
\* or registered anything.
C19_TokenFailureReachesCaller ==
  [][\A p \in Callers \cup Cmds :
       (failedWith'[p] # failedWith[p] /\ failedWith'[p].stage = "token") =>
         LET e == IF failedWith'[p].resp = "401"
                    THEN "AuthFail" ELSE "RequestNotSuccessful"
         IN  /\ accessTokenLock' = FALSE
             /\ p \in Callers =>
                  /\ outcome' = [by |-> p, kind |-> e]
                  /\ pc'[p] = "idle"
             /\ p \in Cmds =>
                  /\ ret'[p] = e
                  /\ pc'[p] = "done"
                  /\ ackId'[p] = NoId /\ timer'[p] = "none"
                  /\ pendingCommands' = pendingCommands]_vars

\* C19 witness: one command has ended with AuthFail after a 401 on its
\* token request and another with RequestNotSuccessful after a token request
\* that got no response.
C19_Witness ==
  \E c, d \in Cmds :
    /\ failedWith[c] = [stage |-> "token", resp |-> "401"]
    /\ ret[c] = "AuthFail" /\ pc[c] = "done"
    /\ failedWith[d] = [stage |-> "token", resp |-> "network"]
    /\ ret[d] = "RequestNotSuccessful" /\ pc[d] = "done"

\* C20: a command whose POST failed has ended with the error of that
\* failure (AuthFail for a 401, RequestNotSuccessful for anything else), has
\* no entry among the pending commands, never had a timer and was never
\* resolved or removed; the step in which the POST fails leaves the pending
\* commands and every timer as they were.
C20_PostFailureRegistersNothing ==
  /\ [](\A c \in Cmds :
          failedWith[c].stage = "post" =>
            /\ ret[c] = IF failedWith[c].resp = "401"
                          THEN "AuthFail" ELSE "RequestNotSuccessful"
            /\ pc[c] = "done"
            /\ timer[c] = "none"
            /\ \A id \in DOMAIN pendingCommands : pendingCommands[id] # c
            /\ resolveCalls[c] = 0 /\ removals[c] = 0)
  /\ [][\A c \in Cmds :
          (failedWith'[c] # failedWith[c] /\ failedWith'[c].stage = "post") =>
            UNCHANGED <<pendingCommands, timer, timerAt>>]_vars

\* C20 witness: the POST of one command got a 401 while another command
\* is registered and waits for its confirmation.
C20_Witness ==
  \E c, d \in Cmds :
    /\ failedWith[c] = [stage |-> "post", resp |-> "401"]
    /\ ret[c] = "AuthFail"
    /\ pc[d] = "pending" /\ timer[d] = "armed"
    /\ ackId[d] \in DOMAIN pendingCommands

\* A SUBSCRIBE frame was sent on WebSocket s: its handshake completed.
Established(s) ==
  \E i \in 1..Len(sent) : sent[i].sock = s /\ sent[i].type = "SUBSCRIBE"

C22_ProofNeedsSecretOf32 ==
  authStage \in {"proved", "again"} =>
    IF Len(authIn.secret32) = SECRET_LENGTH
      THEN /\ authOut.status = "ok"
           /\ Len(authOut.work) = SECRET_LENGTH
      ELSE /\ authOut.status = "error"
           /\ authOut.read = 0
           /\ authOut.work = <<>>

\* C22 witness: a proof was asked for with a secret of 33 bytes and a base
\* string that is not empty, and the call failed.
C22_Witness ==
  /\ authStage = "proved"
  /\ Len(authIn.secret32) = SECRET_LENGTH + 1
  /\ authIn.baseString # <<>>
  /\ authOut.status = "error"

\* b XOR c for bytes, as the sum of the bits in which they differ.
XorOfBytes(b, c) ==
  LET bit(i) == (((b \div Pow2(i)) + (c \div Pow2(i))) % 2) * Pow2(i)
  IN  bit(0) + bit(1) + bit(2) + bit(3) + bit(4) + bit(5) + bit(6) + bit(7)

\* The byte x rotated left by s bits, 0 <= s <= 7.
RotateLeft8(x, s) == ((x * Pow2(s)) % 256) + (x \div Pow2(8 - s))

\* The fold over the first n bytes of the message, from the secret.
RECURSIVE ProofFold(_, _, _)
ProofFold(secret, bytes, n) ==
  IF n = 0 THEN secret
  ELSE LET work == ProofFold(secret, bytes, n - 1)
           b == bytes[n]
           idx == b % 32
           shift == work[((idx + 1) % 32) + 1] % 8
       IN  [work EXCEPT ![idx + 1] = RotateLeft8(XorOfBytes(b, work[idx + 1]), shift)]

\* C23: for every base string and every secret of 32 bytes the working
\* buffer that generateRequestProof hashes is the left-to-right fold over
\* the bytes of the base string of idx = b mod 32,
\* shift = work[(idx + 1) mod 32] & 7,
\* work[idx] := rotateLeft8(b XOR work[idx], shift), from a copy of the
\* secret; a second call with the same arguments returns the same.
C23_WorkIsFoldOverMessage ==
  /\ (authStage \in {"proved", "again"} /\ authOut.status = "ok") =>
       LET bytes == Utf8(authIn.baseString)
       IN  authOut.work = ProofFold(authIn.secret32, bytes, Len(bytes))
  /\ authStage = "again" => authAgain = authOut

\* C23 witness: a proof was computed twice for a base string in which a
\* byte that rewrites working byte 1 is followed by a byte whose shift is
\* read from working byte 1, and the working buffer differs from the secret.
C23_Witness ==
  /\ authStage = "again"
  /\ authOut.status = "ok"
  /\ \E k \in 1..(Len(authIn.baseString) - 1) :
       authIn.baseString[k] = 33 /\ authIn.baseString[k + 1] = 32
  /\ authOut.work # authIn.secret32

\* C24: a key that was written with installationKeyToJSON and read back
\* with installationKeyFromJSON has the same installationId, the same secret
\* bytes and the same private key bytes.
C24_KeyRoundTrip ==
  authStage = "read" =>
    /\ authOut = authIn.key
    /\ authOut.installationId = authIn.key.installationId
    /\ authOut.secret = authIn.key.secret
    /\ authOut.privateKey = authIn.key.privateKey

\* C24 witness: a key was read back whose secret needs padding in base64
\* and holds the byte 255, and whose id holds a quotation mark and a
\* backslash.
C24_Witness ==
  /\ authStage = "read"
  /\ authIn.key.secret = <<255, 77>>
  /\ authIn.key.privateKey = <<0>>
  /\ authIn.key.installationId = <<34, 92>>
  /\ authOut.installationId = <<34, 92>>

\* C25: the held token, if there is one, expires exactly TOKEN_EXPIRATION
\* seconds after the last successful sign-in or refresh response came, and
\* its access token and its refresh token are those of that response; while
\* no response has come no token is held.
C25_TokenOfOneResponse ==
  IF accessToken = NoToken
    THEN respondedAt = -1 /\ served = 0
    ELSE /\ respondedAt >= 0
         /\ accessToken.expiresAt = respondedAt + 3600
         /\ accessToken.accessToken = served
         /\ accessToken.refreshToken = served

\* C25 witness: a second response has replaced the token of the first
\* sign-in, at a later time, and the token held is its token.
C25_Witness ==
  /\ served = 2
  /\ accessToken = [accessToken |-> 2, refreshToken |-> 2,
                    expiresAt |-> respondedAt + 3600]
  /\ respondedAt > 0

\* C26: no successful confirmation is lost to the registration race: a
\* command whose Success confirmation was received after the server had
\* accepted its POST and before executeCommand registered its pending entry,
\* and whose POST response then came with the session connected, returns
\* true.
C26_EarlyConfirmationNotLost ==
  \A c \in Cmds :
    (c \in earlySuccess /\ pc[c] = "done" /\ upAtPost[c] = "up"
       /\ failedWith[c].stage = "none")
      => ret[c] = "true"

\* C27: on every transport that has opened during a connection attempt a
\* CONNECT frame with the bearer token was sent, whichever came first, the
\* open event or the access token: once the transport of the current attempt
\* is open and setupWebsocketConnection has its token, CONNECT with that
\* token is among the frames sent on it.
C27_ConnectSentOnOpen ==
  (/\ sock > 0
   /\ readyState[sock] = "OPEN"
   /\ pc[WS] = "handshake"
   /\ handlers # {})
    => \E i \in 1..Len(sent) :
         /\ sent[i].sock = sock
         /\ sent[i].type = "CONNECT"
         /\ sent[i].arg = bearer

Subscribes(k) ==
  {i \in 1..Len(sent) : sent[i].sock = k /\ sent[i].type = "SUBSCRIBE"}

\* C28: on each connection SUBSCRIBE is sent only after a CONNECTED frame
\* was received on it (and after its CONNECT), at most once however many
\* CONNECTED frames arrive, under a subscription id no other connection
\* uses; a CONNECTED frame after the first sends nothing and changes no
\* state, and neither does a frame of another type that arrives during the
\* handshake.
C28_SubscribeOncePerConnected ==
  /\ [](\A k \in 1..MaxAttempts :
          /\ Cardinality(Subscribes(k)) <= 1
          /\ Subscribes(k) # {} <=> connectedSeen[k] >= 1
          /\ \A i \in Subscribes(k) :
               /\ \E j \in 1..(i - 1) :
                    sent[j].sock = k /\ sent[j].type = "CONNECT"
               /\ \A j \in 1..Len(sent) :
                    (sent[j].type = "SUBSCRIBE" /\ sent[j].arg = sent[i].arg)
                      => j = i
          /\ (k \in ignoredOn /\ connectedSeen[k] = 0) =>
               \A i \in 1..Len(sent) :
                 sent[i].sock = k => sent[i].type = "CONNECT")
  /\ [][(\/ ignoredOn' # ignoredOn
         \/ \E k \in 1..MaxAttempts :
              connectedSeen[k] >= 1 /\ connectedSeen'[k] # connectedSeen[k])
          => UNCHANGED <<tokenVars, histVars, wsVars, cmdVars>>]_vars

\* C28 witness: a connection received a frame of another type during its
\* handshake, then CONNECTED twice, and one SUBSCRIBE was sent on it.
C28_Witness ==
  \E k \in 1..MaxAttempts :
    /\ k \in ignoredOn
    /\ connectedSeen[k] = 2
    /\ Cardinality(Subscribes(k)) = 1

\* C29: a call that waited on the lock decides when it takes the lock,
\* against the token held and the clock of that moment: with no token or an
\* expired one it issues its own sign-in, inside the refresh window a refresh
\* with the refresh token held then, and with a valid token outside the
\* window it issues no request and returns the token held.
C29_WaiterDecidesAtAcquire ==
  [][\A p \in Procs :
       (pc[p] = "poll" /\ pc'[p] # "poll") =>
         LET mustSignIn == accessToken = NoToken \/ accessToken.expiresAt < now
             mustRefresh == ~mustSignIn /\ accessToken.expiresAt < now + 600
         IN  /\ mustSignIn =>
                  /\ pc'[p] = "signin"
                  /\ \E r \in tokenReqs' \ tokenReqs :
                       r.by = p /\ r.kind = "signin"
             /\ mustRefresh =>
                  /\ pc'[p] = "refresh"
                  /\ \E r \in tokenReqs' \ tokenReqs :
                       /\ r.by = p /\ r.kind = "refresh"
                       /\ r.refreshToken = accessToken.refreshToken
             /\ (~mustSignIn /\ ~mustRefresh) =>
                  /\ tokenReqs' = tokenReqs
                  /\ pc'[p] \notin {"signin", "refresh"}
                  /\ accessToken' = accessToken
                  /\ p \in Callers => outcome' = [by |-> p, kind |-> "token"]]_vars

\* C29 witness: a call that started with no token held and found the lock
\* taken has issued its own sign-in after the sign-in it waited for failed,
\* while another call that waited with it is still waiting.
C29_Witness ==
  \E p, q \in Callers :
    /\ p \in polled /\ q \in polled
    /\ BornAs(p, 0, "none")
    /\ pc[p] = "signin" /\ pc[q] = "poll"
    /\ 0 \in failedTok
    /\ signInsBy[0]["none"] = 2

\* C30: the step in which a sign-in or refresh fails releases the lock and
\* leaves the held token, absent or not, as it was; and the lock is held
\* only while a request is in flight.
C30_FailureReleasesLockKeepsToken ==
  /\ [](accessTokenLock => tokenReqs # {})
  /\ [][\A p \in Procs :
          (failedWith'[p] # failedWith[p] /\ failedWith'[p].stage = "token") =>
            /\ accessTokenLock
            /\ accessTokenLock' = FALSE
            /\ accessToken' = accessToken
            /\ served' = served
            /\ tokenReqs' = {}]_vars

\* C30 witness: the refresh of a held token has failed; the lock is free
\* and that token is still held.
C30_Witness ==
  \E p \in Callers :
    /\ failedWith[p].stage = "token"
    /\ accessToken # NoToken
    /\ accessToken.accessToken \in failedTok
    /\ ~accessTokenLock
    /\ pc[p] = "idle"

\* C31: every call of asyncGetAccessToken returns a token or fails with an
\* error, however many callers there are: a caller that waits for the lock
\* or for its request is eventually back with the outcome of its call.
C31_EveryTokenCallReturns ==
  \A p \in Callers :
    (pc[p] \in {"poll", "signin", "refresh"}) ~> (pc[p] = "idle")

\* C31 witness: every caller has called, two of them found the lock taken,
\* and all are back, one of the waiters last.
C31_Witness ==
  /\ \A p \in Callers : pc[p] = "idle" /\ born[p] # Unborn
  /\ Cardinality(polled) >= 2
  /\ outcome.by \in polled
  /\ outcome.kind = "token"

\* C32: while the process runs, every executeCommand call that has
\* registered its pending entry after the POST response eventually returns,
\* whatever the server and the transport do afterwards (no confirmation,
\* close, reconnect, disconnect): commandTimeout is running for as long as
\* the call is pending and its deadline is at most 10 s away.
C32_PendingCommandReturns ==
  /\ \A c \in Cmds : (pc[c] = "pending") ~> (pc[c] = "done" \/ ~Alive)
  /\ [](\A c \in Cmds :
          pc[c] = "pending" =>
            /\ timer[c] = "armed"
            /\ timerAt[c] <= now + PENDING_COMMAND_TIMEOUT \div 1000)

\* C32 witness: a command returned false through its timer after the
\* transport of the session it was posted under had closed.
C32_Witness ==
  \E c \in Cmds :
    /\ pc[c] = "done"
    /\ timer[c] = "fired"
    /\ ret[c] = "false"
    /\ upAtPost[c] = "up"
    /\ confirmation[c] = "none"
    /\ sock > 0
    /\ readyState[sock] = "CLOSED"
    /\ Alive

\* C33: websocket.connected is true only if the transport this.websocket
\* refers to is the one of the current attempt, is open, and has received
\* CONNECTED and sent SUBSCRIBE; a step in which a transport stops being
\* open (close, error, disconnect) leaves the flag false, and the flag
\* turns true only in the step that completes a handshake on a transport
\* this.websocket did not refer to before.
C33_ConnectedMeansLiveSession ==
  /\ [](Connected =>
          /\ websocket.ws = sock
          /\ readyState[sock] = "OPEN"
          /\ connectedSeen[sock] >= 1
          /\ Established(sock)
          /\ pc[WS] = "active")
  /\ [][(\E k \in 1..MaxAttempts :
           readyState[k] = "OPEN" /\ readyState'[k] # "OPEN") => ~Connected']_vars
  /\ [][(~Connected /\ Connected') =>
          /\ websocket'.ws # websocket.ws
          /\ pc[WS] = "handshake" /\ pc'[WS] = "active"]_vars

\* C33 witness: the first session was disconnected and has closed, and a
\* second handshake has completed on a new transport.
C33_Witness ==
  /\ websocket.ws = 2
  /\ Connected
  /\ readyState[1] = "CLOSED"
  /\ connectedSeen[1] >= 1
  /\ \E i \in 1..Len(sent) : sent[i].sock = 1 /\ sent[i].type = "UNSUBSCRIBE"

\* The executeCommand calls that wait for their confirmation.
Waiting == {c \in Cmds : pc[c] = "pending"}

\* C34: pendingCommands holds exactly the ids of the executeCommand calls
\* that have registered and not yet returned: every id in it is the
\* acknowledgement id of one call that is still waiting and has no result,
\* every waiting call has its id in it, and the id of a call that has
\* returned (by confirmation or by timeout) is not in it.
C34_PendingSetNeverLeaks ==
  /\ \A i \in DOMAIN pendingCommands :
       /\ pendingCommands[i] \in Waiting
       /\ ackId[pendingCommands[i]] = i
       /\ ret[pendingCommands[i]] = "none"
  /\ Cardinality(DOMAIN pendingCommands) = Cardinality(Waiting)
  /\ \A c \in Cmds :
       (pc[c] = "done" \/ ret[c] # "none") =>
         ackId[c] \notin DOMAIN pendingCommands

\* C34 witness: of two registered commands the later one has returned
\* through its confirmation while the earlier one still waits, and the set
\* holds the id of the earlier one only.
C34_Witness ==
  \E c, d \in Cmds :
    /\ ackId[c] < ackId[d]
    /\ pc[c] = "pending"
    /\ pc[d] = "done" /\ timer[d] = "cleared"
    /\ DOMAIN pendingCommands = {ackId[c]}

C36_ErrorFrameNotFatal ==
  /\ [](fatal # "receiveError")
  /\ [][droppedWith' # droppedWith =>
          /\ Receiving /\ Receiving'
          /\ UNCHANGED <<sock, readyState, handlers, websocket, sent, subs>>
          /\ pc' = pc /\ backoffAt' = backoffAt /\ autoReconnect' = autoReconnect
          /\ UNCHANGED <<pendingCommands, timer, timerAt, ret, resolveCalls>>
          /\ UNCHANGED <<accessToken, accessTokenLock, tokenReqs>>
          /\ notified' = notified
          /\ disconnectCalls' = disconnectCalls]_vars

\* C36 witness: an ERROR frame arrived while a command was pending and a
\* token was held; the session is still connected and the command waits.
C36_Witness ==
  /\ droppedWith = "pending"
  /\ Connected
  /\ pc[WS] = "active"
  /\ accessToken # NoToken
  /\ \E c \in Cmds : pc[c] = "pending" /\ ackId[c] \in DOMAIN pendingCommands
  /\ \A s \in 1..MaxAttempts : disconnectCalls[s] = 0
  /\ Alive

\* The pending commands as the loop over config.commands finds them.
PendingNow ==
  [pend |-> pendingCommands, timer |-> timer, ret |-> ret,
   calls |-> resolveCalls, removed |-> removals, pc |-> pc]

\* The entries that name no registered command: of a command that has
\* returned, of one not yet registered, of no command of this client.
Unmatched ==
  {[id |-> i, status |-> "Success"] : i \in ConfIds \ DOMAIN pendingCommands}

\* The entries that confirm a registered command.
Matched ==
  {[id |-> i, status |-> s] :
     i \in DOMAIN pendingCommands, s \in {"Success", "Error"}}

\* C37: an entry whose id names no registered pending command changes
\* nothing (the pending set, the timers, the results of the calls), and a
\* frame that carries it before or after an entry that confirms a pending
\* command settles that command as the confirming entry alone would; the
\* step that handles an entry for a command that has timed out leaves that
\* command's result and its counts as they were, adds nothing to the
\* pending set and raises no error.
C37_UnmatchedEntrySkipped ==
  /\ [](\A e \in Unmatched :
          /\ ProcessCommands(PendingNow, <<e>>) = PendingNow
          /\ \A g \in Matched :
               /\ ProcessCommands(PendingNow, <<e, g>>) = ApplyEntry(PendingNow, g)
               /\ ProcessCommands(PendingNow, <<g, e>>) = ApplyEntry(PendingNow, g)
               /\ ApplyEntry(PendingNow, g) # PendingNow)
  /\ [][\A c \in Cmds :
          (confirmation'[c] = "late" /\ confirmation[c] # "late") =>
            /\ ret'[c] = ret[c] /\ timer'[c] = timer[c]
            /\ resolveCalls'[c] = resolveCalls[c] /\ removals'[c] = removals[c]
            /\ DOMAIN pendingCommands' \subseteq DOMAIN pendingCommands
            /\ fatal' = "none"]_vars

\* C37 witness: an entry for a command that had timed out was handled, a
\* frame has confirmed the other command, and a third id is unmatched while
\* nothing is pending.
C37_Witness ==
  \E c, d \in Cmds :
    /\ confirmation[c] = "late" /\ ret[c] = "false"
    /\ confirmation[d] = "Success" /\ ret[d] = "true"
    /\ notified.saw = "resolved"
    /\ pendingCommands = <<>>
    /\ Connected

\* What follows the first blank line of a raw frame.
AfterFirstBlankLine(msg) ==
  LET i == indexOf(msg, <<LF, LF>>)
  IN IF i = -1 THEN <<>> ELSE SubSeq(msg, i + 3, Len(msg))

\* A string without one trailing terminator, if it ends in one.
WithoutOneTerminator(str) ==
  IF str # <<>> /\ str[Len(str)] = NUL
    THEN SubSeq(str, 1, Len(str) - 1)
    ELSE str

\* C38: the body that decodeStompWsMessage returns for a raw frame is all
\* that follows the first blank line of the frame, a second blank line and
\* the text after it included, without one trailing terminator (where
\* nothing is left the body is empty or null).
C38_BodyIsAllAfterFirstBlankLine ==
  stompStage = "decoded" =>
    LET body == WithoutOneTerminator(AfterFirstBlankLine(stompMsg))
    IN IF body = <<>> THEN stompOut.data \in {Null, <<>>}
       ELSE stompOut.data = body

\* The working buffer before the k-th byte of the base string is processed.
WorkBefore(k) ==
  ProofLoop(authIn.secret32, authIn.secret32,
            SubSeq(Utf8(authIn.baseString), 1, k - 1), 1)

\* The shift amount of the k-th step.
ShiftAt(k) ==
  LET idx == Utf8(authIn.baseString)[k] % 32
  IN  WorkBefore(k)[((idx + 1) % 32) + 1] % 8

\* C39: the step of generateRequestProof for a byte b, taken from the
\* working buffer each step of a call starts from with the byte that gives
\* the shift amount set to each of 0..7, stores rotateLeft8(b XOR work[idx],
\* shift) at idx, which for a shift of 0 is b XOR work[idx]; the buffer keeps
\* its 32 bytes, each in 0..255, and every byte but work[idx] is as before;
\* the call leaves the caller's secret buffer as it was.
C39_RotationExactAndLocal ==
  /\ []((authStage = "proved" /\ authOut.status = "ok") =>
          \A k \in 1..Len(Utf8(authIn.baseString)) : \A n \in 0..7 :
            LET b == Utf8(authIn.baseString)[k]
                idx == b % 32
                shiftIdx == (idx + 1) % 32
                work == [WorkBefore(k) EXCEPT ![shiftIdx + 1] = (@ - (@ % 8)) + n]
                after == ProofStep(work, authIn.secret32, b)
            IN  /\ after[idx + 1] = RotateLeft8(XorOfBytes(b, work[idx + 1]), n)
                /\ n = 0 => after[idx + 1] = XorOfBytes(b, work[idx + 1])
                /\ DOMAIN after = 1..SECRET_LENGTH
                /\ \A j \in 1..SECRET_LENGTH :
                     /\ after[j] \in 0..255
                     /\ j # idx + 1 => after[j] = work[j])
  /\ [][(authStage = "input" /\ authStage' = "proved") =>
          authIn'.secret32 = authIn.secret32]_vars

\* C39 witness: a proof with a step whose shift amount was 0, on a byte with
\* the top bit set, and a step whose shift amount was not 0, and whose
\* working buffer differs from the secret the caller still holds.
C39_Witness ==
  /\ authStage = "proved"
  /\ authOut.status = "ok"
  /\ \E k, m \in 1..Len(Utf8(authIn.baseString)) :
       /\ ShiftAt(k) = 0
       /\ Utf8(authIn.baseString)[k] >= 128
       /\ ShiftAt(m) # 0
  /\ authOut.work # authIn.secret32
  /\ authOut.secret32 = authIn.secret32

\* The WebSocket objects of the loop whose transport is open.
OpenTransports == {k \in 1..MaxAttempts : readyState[k] = "OPEN"}

\* C40: of the WebSocket objects that one websocketConnect loop has created
\* at most one has its transport open at any time.
C40_OneTransportOpen == Cardinality(OpenTransports) <= 1
====
